---- MODULE Spec2Model ----
(***************************************************************************)
(* A model of pytest-docker-network-fixtures: the DockerTester             *)
(* orchestrator (dockertester.py), the session fixture that owns it        *)
(* (core_fixtures.py) and the reachability resolution of a container port. *)
(*                                                                         *)
(* The docker engine is the environment.  Every engine call may raise; the *)
(* calls that raise during one operation are an input of the operation     *)
(* (the `faults' of the actions below).                                    *)
(***************************************************************************)
EXTENDS Integers, Sequences, FiniteSets, TLC

(* ----------------------------- bounds ---------------------------------- *)

\* container ids the engine hands out during one run: 1..MaxContainers
MaxContainers == 2

\* the ids, in the order in which the engine hands them out
IdSeq == << "c1", "c2", "c3", "c4", "c5", "c6" >>

Ids == { IdSeq[n] : n \in 1..MaxContainers }

\* the place of an id in that order
Index(id) == CHOOSE n \in 1..Len(IdSeq) : IdSeq[n] = id

\* the logical service names the tests launch
ServiceNames == {"db", "mq"}

\* Python's None
None == "None"

(* --------------------------- DockerImage -------------------------------- *)

\* images.py: the dataclass DockerImage (the registry plays no part here)
DockerImage(image_name, image_tag, use_local) ==
    [image_name |-> image_name, image_tag |-> image_tag, use_local |-> use_local]

\* images.py: DockerImage.with_image_tag
with_image_tag(image, image_tag) ==
    DockerImage(image.image_name, image_tag, image.use_local)

\* images.py 31-39: DockerImage.full_name, without registry
full_name(image) ==
    IF image.image_tag # None
    THEN image.image_name \o ":" \o image.image_tag
    ELSE image.image_name

\* the image references the tests launch
Images ==
    { DockerImage("mongo", None, FALSE),
      DockerImage("mongo", "latest", FALSE),
      DockerImage("mongo", None, TRUE),
      DockerImage("postgres", "13", FALSE) }

\* an untagged reference gets the tag "latest", local-only or not
qualify_image_local_too(image) ==
    IF image.image_tag = None
    THEN with_image_tag(image, "latest")
    ELSE image

\* dockertester.py 252-253: an untagged reference that is not local-only
\* gets the tag "latest"
qualify_image(image) ==
    IF ~image.use_local /\ image.image_tag = None
    THEN with_image_tag(image, "latest")
    ELSE image

(* ------------------------ state of the program -------------------------- *)

VARIABLES
    fixture_pc,         \* position of the session fixture `dockertester'
    owned_containers,   \* DockerTester._owned_containers: id -> container
    services,           \* DockerTester._services: id -> service name
    updated_images,     \* DockerTester._updated_images
    container_log_dumped, \* DockerTester._container_log_dumped
    handles,            \* the ids of the ManagedContainers launch has
                        \* returned
    pull_attempted,     \* the images the engine was asked to pull
    dump_attempted,     \* the containers whose logs a call of
                        \* dump_logs_to_stdout with only_once has asked the
                        \* engine for
    network,            \* the isolated network: "none", "created", "removed"
    containers,         \* the engine's containers: id -> state
    names,              \* the engine's containers: id -> name (service name)
    next_id,            \* the id the engine gives to the next container
    last,               \* the last operation: name, argument, engine calls,
                        \* what it raised and what it returned
    call,               \* a call that reads no state of the DockerTester:
                        \* what the caller passes and what the engine and
                        \* the host report
    outcome,            \* what that call returned or raised
    poll,               \* a call of get_bound_ports: its position in the
                        \* loop, the time since it started and the last
                        \* answer of the engine
    removal,            \* a call of remove that is followed statement by
                        \* statement: its position and its container id
    observed,           \* what a reader in another thread has found for
                        \* a container id
    registries_by_name, \* DockerImageManager.registries_by_name
    registries_by_registry \* DockerImageManager.registries_by_registry

tester_vars ==
    << fixture_pc, owned_containers, services, updated_images,
       container_log_dumped, handles, pull_attempted, dump_attempted,
       network, containers,
       names,
       next_id, last >>

\* no call of remove is under way, and no reader has looked
Found(owned, service, engine) ==
    [ owned |-> owned, service |-> service, engine |-> engine ]
NoRemoval == [ pc |-> "idle", id |-> "None", old |-> Found(FALSE, FALSE, FALSE) ]
NoObservation ==
    [ id |-> "None", found |-> Found(FALSE, FALSE, FALSE), removing |-> "None",
      old |-> Found(FALSE, FALSE, FALSE) ]

\* the state of the calls that are followed step by step
concurrent_vars == << removal, observed >>

\* the two indexes of the DockerImageManager
manager_vars == << registries_by_name, registries_by_registry >>

aux_vars == << poll, concurrent_vars, manager_vars >>

vars == << tester_vars, call, outcome, aux_vars >>

\* the part of the state the methods of DockerTester read and write
World ==
    [ owned |-> owned_containers, services |-> services,
      updated |-> updated_images, log_dumped |-> container_log_dumped,
      attempted |-> pull_attempted, dump_attempted |-> dump_attempted,
      network |-> network,
      containers |-> containers, names |-> names, next_id |-> next_id,
      calls |-> << >>, raised |-> None, ret |-> None, created |-> None,
      config_image |-> None ]

\* a map without one key (Python's del d[k])
Del(d, k) == [ x \in (DOMAIN d) \ {k} |-> d[x] ]

\* a map with one more key (Python's d[k] = v)
Put(d, k, v) == [ x \in (DOMAIN d) \cup {k} |-> IF x = k THEN v ELSE d[x] ]

EmptyMap == [ x \in {} |-> None ]

\* images.py 169-171: the DockerImageManager is constructed with two empty
\* indexes
NoManager ==
    /\ registries_by_name = EmptyMap
    /\ registries_by_registry = EmptyMap

\* one engine call, written to the record of calls
Call(w, name, arg) == [ w EXCEPT !.calls = Append(@, << name, arg, "ok" >>) ]

\* the engine call made last raises
Failed(w) ==
    [ w EXCEPT !.calls[Len(w.calls)][3] = "raised", !.raised = "EngineError" ]

Raise(w, exc) == [ w EXCEPT !.raised = exc ]

(* --------------------------- DockerTester ------------------------------- *)

\* every id is taken for the id of an owned container
assert_container_skipped(w, container_id) == TRUE

\* dockertester.py 337-341: _assert_container
assert_container(w, container_id) == container_id \in DOMAIN w.owned

\* the engine's container.remove(force=True): it raises for a container
\* the engine does not have, and for an engine fault
engine_remove_ok(w, container_id, faults) ==
    /\ w.containers[container_id] # "absent"
    /\ container_id \notin faults

\* remove with the second del statement left out
remove_entries_owned_only(w, container_id) ==
    [ w EXCEPT !.owned = Del(@, container_id) ]

\* dockertester.py 346-347: the two del statements of remove
remove_entries(w, container_id) ==
    LET w1 == [ w EXCEPT !.owned = Del(@, container_id) ]
    IN  IF container_id \in DOMAIN w1.services
        THEN [ w1 EXCEPT !.services = Del(@, container_id) ]
        ELSE Raise(w1, "KeyError")

\* dockertester.py 343-347: remove.  faults: the ids whose engine removal
\* raises
remove(w, container_id, faults) ==
    IF ~assert_container(w, container_id)
    THEN Raise(w, "AssertionError")
    ELSE LET w1 == Call(w, "remove", container_id)
         IN  IF ~engine_remove_ok(w1, container_id, faults)
             THEN Failed(w1)
             ELSE remove_entries(
                    [ w1 EXCEPT !.containers[container_id] = "absent" ],
                    container_id)

\* the keys of a map in insertion order, which is the order in which the
\* engine has handed out the ids
RECURSIVE KeyList(_)
KeyList(S) ==
    IF S = {} THEN << >>
    ELSE LET m == CHOOSE x \in S : \A y \in S : Index(x) <= Index(y)
         IN  << m >> \o KeyList(S \ {m})

\* the loop of remove_all without its try statement: the first exception
\* of remove ends the loop
RECURSIVE remove_each_unguarded(_, _, _)
remove_each_unguarded(w, ids, faults) ==
    IF ids = << >> \/ w.raised # None THEN [ w EXCEPT !.raised = None ]
    ELSE remove_each_unguarded(remove(w, Head(ids), faults), Tail(ids), faults)

\* dockertester.py 350-358: the loop of remove_all; an exception of remove
\* is printed and dropped
RECURSIVE remove_each(_, _, _)
remove_each(w, ids, faults) ==
    IF ids = << >> THEN w
    ELSE LET w1 == remove(w, Head(ids), faults)
         IN  remove_each([ w1 EXCEPT !.raised = None ], Tail(ids), faults)

\* an exception of the removal of the network is caught, as the exception
\* of the removal of a container is
remove_network_swallowed(w, net_fault) ==
    LET w1 == Call(w, "network.remove", None)
    IN  IF net_fault \/ w1.network # "created"
        THEN [ w1 EXCEPT !.calls[Len(w1.calls)][3] = "raised" ]
        ELSE [ w1 EXCEPT !.network = "removed" ]

\* dockertester.py 360-363: the removal of the isolated network
remove_network(w, net_fault) ==
    LET w1 == Call(w, "network.remove", None)
    IN  IF net_fault \/ w1.network # "created"
        THEN Failed(w1)
        ELSE [ w1 EXCEPT !.network = "removed" ]

\* dockertester.py 349-363: remove_all
remove_all(w, faults, net_fault) ==
    remove_network(remove_each(w, KeyList(DOMAIN w.owned), faults), net_fault)

\* dockertester.py 327-335: find_id for a string; None when no entry has
\* this id or this service name
find_id(w, designation) ==
    LET hits == { i \in DOMAIN w.services :
                    i = designation \/ w.services[i] = designation }
    IN  IF hits = {} THEN None ELSE Head(KeyList(hits))

(* launch_container, dockertester.py 239-317.  fault names the engine call
   of this launch that raises ("none": no engine fault). *)

LaunchFaults ==
    { "none", "list", "remove_named", "pull", "create", "put_archive",
      "connect", "start" }

\* the shapes of the ports argument: a dict, a list, anything else
PortsShapes == { "dict", "list", "other" }

\* only the running containers are listed under the generated name and
\* removed
remove_named_running_only(w, container_name, fault) ==
    LET w1 == Call(w, "list", container_name)
        named == { i \in Ids : w.containers[i] = "running"
                                 /\ w.names[i] = container_name }
    IN  IF fault = "list" THEN Failed(w1)
        ELSE IF named = {} THEN w1
        ELSE IF fault = "remove_named"
             THEN Failed(Call(w1, "remove", Head(KeyList(named))))
        ELSE [ w1 EXCEPT
                 !.calls = @ \o [ k \in 1..Cardinality(named) |->
                                    << "remove", KeyList(named)[k], "ok" >> ],
                 !.containers = [ i \in Ids |->
                                    IF i \in named THEN "absent" ELSE @[i] ] ]

\* dockertester.py 257-261: every container the engine lists under the
\* generated name is removed from the engine
remove_named(w, container_name, fault) ==
    LET w1 == Call(w, "list", container_name)
        named == { i \in Ids : w.containers[i] # "absent"
                                 /\ w.names[i] = container_name }
    IN  IF fault = "list" THEN Failed(w1)
        ELSE IF named = {} THEN w1
        ELSE IF fault = "remove_named"
             THEN Failed(Call(w1, "remove", Head(KeyList(named))))
        ELSE [ w1 EXCEPT
                 !.calls = @ \o [ k \in 1..Cardinality(named) |->
                                    << "remove", KeyList(named)[k], "ok" >> ],
                 !.containers = [ i \in Ids |->
                                    IF i \in named THEN "absent" ELSE @[i] ] ]

\* the image is pulled by every launch, unless it is local-only
pull_image_every_launch(w, image, fault) ==
    IF image.use_local
    THEN w
    ELSE LET w1 == Call(w, "pull", full_name(image))
         IN  IF fault = "pull"
             THEN Failed([ w1 EXCEPT !.attempted = @ \cup {image} ])
             ELSE [ w1 EXCEPT !.attempted = @ \cup {image},
                              !.updated = @ \cup {image} ]

\* dockertester.py 263-267: the image is pulled unless it is local-only or
\* has been pulled before
pull_image(w, image, fault) ==
    IF image.use_local \/ image \in w.updated
    THEN w
    ELSE LET w1 == Call(w, "pull", full_name(image))
         IN  IF fault = "pull"
             THEN Failed([ w1 EXCEPT !.attempted = @ \cup {image} ])
             ELSE [ w1 EXCEPT !.attempted = @ \cup {image},
                              !.updated = @ \cup {image} ]

\* dockertester.py 271-278: the configuration of the new container names
\* the image by its full name
container_config(w, image) == [ w EXCEPT !.config_image = full_name(image) ]

\* dockertester.py 283-290: ports is a dict or a list
check_ports(w, ports) ==
    IF ports \in { "dict", "list" } THEN w ELSE Raise(w, "ValueError")

\* the new container takes the place of the entries the maps had
register_alone(w, container_id, service_name) ==
    [ w EXCEPT !.owned = Put(EmptyMap, container_id, container_id),
               !.services = Put(EmptyMap, container_id, service_name) ]

\* dockertester.py 299-300: the new container is entered in both maps
register(w, container_id, service_name) ==
    [ w EXCEPT !.owned = Put(@, container_id, container_id),
               !.services = Put(@, container_id, service_name) ]

\* the container is created, and registered only by a launch that goes on
\* to its end
create_container_unregistered(w, service_name, fault) ==
    LET w1 == Call(w, "create", service_name)
        id == IdSeq[w.next_id]
        w2 == [ w1 EXCEPT !.containers[id] = "created",
                          !.names[id] = service_name,
                          !.created = id,
                          !.next_id = @ + 1 ]
    IN  IF fault = "create" THEN Failed(w1)
        ELSE IF fault = "none" /\ w.network = "created"
        THEN register(w2, id, service_name)
        ELSE w2

\* dockertester.py 298-300: the container is created and registered
create_container(w, service_name, fault) ==
    LET w1 == Call(w, "create", service_name)
        id == IdSeq[w.next_id]
    IN  IF fault = "create" THEN Failed(w1)
        ELSE register(
               [ w1 EXCEPT !.containers[id] = "created",
                           !.names[id] = service_name,
                           !.created = id,
                           !.next_id = @ + 1 ],
               id, service_name)

\* dockertester.py 302-305: the mounts are uploaded
put_archives(w, mounts, fault) ==
    IF ~mounts THEN w
    ELSE LET w1 == Call(w, "put_archive", w.created)
         IN  IF fault = "put_archive" THEN Failed(w1) ELSE w1

\* dockertester.py 307-314: the container is attached to the isolated
\* network; the engine raises when the network is not there
connect_network(w, fault) ==
    LET w1 == Call(w, "connect", w.created)
    IN  IF fault = "connect" \/ w.network # "created"
        THEN Failed(w1)
        ELSE [ w1 EXCEPT !.containers[w.created] = "attached" ]

\* dockertester.py 315: the container is started
start_created(w, fault) ==
    LET w1 == Call(w, "start", w.created)
    IN  IF fault = "start" THEN Failed(w1)
        ELSE [ w1 EXCEPT !.containers[w.created] = "running" ]

\* the next statement runs only when the one before it did not raise
Then(w, Step(_)) == IF w.raised # None THEN w ELSE Step(w)

\* the engine call that fault names is made by this launch: a fault of a
\* call that is not made is no fault
fault_applies(w, image, service_name, ports, mounts, fault) ==
    LET named == { i \in Ids : w.containers[i] # "absent"
                                 /\ w.names[i] = service_name }
        img == qualify_image(image)
    IN  CASE fault \in { "none", "list" } -> TRUE
          [] fault = "remove_named" -> named # {}
          [] fault = "pull" -> ~img.use_local /\ img \notin w.updated
          [] fault = "put_archive" -> mounts /\ ports # "other"
          [] OTHER -> ports # "other"

\* the container is started before it is attached to the network
launch_container_started_first(w, image, service_name, ports, mounts, fault) ==
    LET img == qualify_image(image)
        w1 == remove_named(w, service_name, fault)
        w2 == Then(w1, LAMBDA x : pull_image(x, img, fault))
        w3 == Then(Then(w2, LAMBDA x : container_config(x, img)),
                  LAMBDA x : check_ports(x, ports))
        w4 == Then(w3, LAMBDA x : create_container(x, service_name, fault))
        w5 == Then(w4, LAMBDA x : start_created(x, fault))
        w6 == Then(w5, LAMBDA x : put_archives(x, mounts, fault))
        w7 == Then(w6, LAMBDA x : connect_network(x, fault))
    IN  Then(w7, LAMBDA x : [ x EXCEPT !.ret = x.created ])

\* dockertester.py 239-317: launch_container
launch_container(w, image, service_name, ports, mounts, fault) ==
    LET img == qualify_image(image)
        w1 == remove_named(w, service_name, fault)
        w2 == Then(w1, LAMBDA x : pull_image(x, img, fault))
        w3 == Then(Then(w2, LAMBDA x : container_config(x, img)),
                  LAMBDA x : check_ports(x, ports))
        w4 == Then(w3, LAMBDA x : create_container(x, service_name, fault))
        w5 == Then(w4, LAMBDA x : put_archives(x, mounts, fault))
        w6 == Then(w5, LAMBDA x : connect_network(x, fault))
        w7 == Then(w6, LAMBDA x : start_created(x, fault))
    IN  Then(w7, LAMBDA x : [ x EXCEPT !.ret = x.created ])

\* a container that was stopped is forgotten
stop_container_forgetting(w, name_or_id, fault) ==
    LET container_id == find_id(w, name_or_id)
    IN  IF ~assert_container(w, container_id)
        THEN Raise(w, "AssertionError")
        ELSE LET w1 == Call(w, "stop", container_id)
             IN  IF fault \/ w.containers[container_id] = "absent"
                 THEN Failed(w1)
                 ELSE [ w1 EXCEPT !.containers[container_id] = "exited",
                                  !.owned = Del(@, container_id),
                                  !.services = Del(@, container_id) ]

\* dockertester.py 600-603: stop_container
stop_container(w, name_or_id, fault) ==
    LET container_id == find_id(w, name_or_id)
    IN  IF ~assert_container(w, container_id)
        THEN Raise(w, "AssertionError")
        ELSE LET w1 == Call(w, "stop", container_id)
             IN  IF fault \/ w.containers[container_id] = "absent"
                 THEN Failed(w1)
                 ELSE IF w.containers[container_id] = "running"
                 THEN [ w1 EXCEPT !.containers[container_id] = "exited" ]
                 ELSE w1

\* dockertester.py 605-608: start_container
start_container(w, name_or_id, fault) ==
    LET container_id == find_id(w, name_or_id)
    IN  IF ~assert_container(w, container_id)
        THEN Raise(w, "AssertionError")
        ELSE LET w1 == Call(w, "start", container_id)
             IN  IF fault \/ w.containers[container_id] = "absent"
                 THEN Failed(w1)
                 ELSE [ w1 EXCEPT !.containers[container_id] = "running" ]

(* The methods that ask for a container by its id or its name.  fault: the
   engine call of the method raises. *)

\* the engine answers a call for this container: it raises for the id
\* None (the client refuses a null resource), for a container it does not
\* have, and for an engine fault
engine_answers(w, container_id, fault) ==
    /\ container_id # None
    /\ w.containers[container_id] # "absent"
    /\ ~fault

\* dockertester.py 319-325: get_service_name
get_service_name(w, container_id) ==
    IF container_id \in DOMAIN w.services
    THEN [ w EXCEPT !.ret = w.services[container_id] ]
    ELSE Raise(w, "Exception")

\* dockertester.py 484-486: get_logs
get_logs(w, container_id, fault) ==
    IF ~assert_container(w, container_id)
    THEN Raise(w, "AssertionError")
    ELSE LET w1 == Call(w, "logs", container_id)
         IN  IF engine_answers(w, container_id, fault)
             THEN [ w1 EXCEPT !.ret = "logs" ]
             ELSE Failed(w1)

\* the logs are dumped by every call, whatever only_once says
dump_logs_to_stdout_every_time(w, container_id, only_once, fault) ==
    IF ~assert_container(w, container_id)
    THEN Raise(w, "AssertionError")
    ELSE IF container_id \notin DOMAIN w.services
    THEN Raise(w, "KeyError")
    ELSE LET w1 == Call(w, "logs", container_id)
         IN  IF engine_answers(w, container_id, fault)
             THEN [ w1 EXCEPT !.log_dumped = @ \cup { container_id } ]
             ELSE Failed(w1)

\* dockertester.py 488-518: dump_logs_to_stdout
dump_logs_to_stdout(w, container_id, only_once, fault) ==
    IF ~assert_container(w, container_id)
    THEN Raise(w, "AssertionError")
    ELSE IF container_id \notin DOMAIN w.services
    THEN Raise(w, "KeyError")
    ELSE IF only_once /\ container_id \in w.log_dumped
    THEN w
    ELSE LET w1 == Call(w, "logs", container_id)
         IN  IF engine_answers(w, container_id, fault)
             THEN [ w1 EXCEPT !.log_dumped = @ \cup { container_id } ]
             ELSE Failed(w1)

\* dockertester.py 561-568: inspect_container; what find_id returns goes to
\* the engine as it is
inspect_container(w, name_or_id, fault) ==
    LET container_id == find_id(w, name_or_id)
        w1 == Call(w, "inspect", container_id)
    IN  IF engine_answers(w, container_id, fault)
        THEN [ w1 EXCEPT !.ret = container_id ]
        ELSE Failed(w1)

\* dockertester.py 570-582: resolve_internal_ip
resolve_internal_ip(w, name_or_id, fault) ==
    LET w1 == inspect_container(w, name_or_id, fault)
    IN  IF w1.raised # None THEN w1 ELSE [ w1 EXCEPT !.ret = "IPAddress" ]

\* dockertester.py 584-598: resolve_custom_bridge_network_ip; the container
\* that is not attached to the isolated network has no entry for it
resolve_custom_bridge_network_ip(w, name_or_id, fault) ==
    LET w1 == inspect_container(w, name_or_id, fault)
    IN  IF w1.raised # None THEN w1
        ELSE IF w.containers[w1.ret] = "created" THEN Raise(w1, "KeyError")
        ELSE [ w1 EXCEPT !.ret = "IPAddress" ]

\* dockertester.py 368-389: the engine calls of get_port_bindings
port_bindings_of(w, container_id, fault) ==
    IF ~assert_container(w, container_id)
    THEN Raise(w, "AssertionError")
    ELSE LET w1 == Call(w, "inspect", container_id)
         IN  IF engine_answers(w, container_id, fault)
             THEN [ w1 EXCEPT !.ret = "binding" ]
             ELSE Failed(w1)

\* what the routing table of the host gives: no table, a route to the
\* address on the default bridge, a route to the address on the isolated
\* network, or no route
Routes == { "unavailable", "default", "custom", "none" }

\* dockertester.py 427-482: the engine calls of
\* get_connectable_host_and_port
connectable_of(w, container_id, marker, route, fault) ==
    IF marker THEN port_bindings_of(w, container_id, fault)
    ELSE LET w1 == resolve_internal_ip(w, container_id, fault)
         IN  IF w1.raised # None \/ route \in { "unavailable", "default" }
             THEN w1
             ELSE LET w2 == resolve_custom_bridge_network_ip(w1, container_id,
                                                              FALSE)
                  IN  IF w2.raised # None \/ route = "custom"
                      THEN w2
                      ELSE port_bindings_of(w2, container_id, FALSE)

\* dockertester.py 520-559: base_url_for_container
base_url_for_container(w, container_id, marker, route, fault) ==
    IF ~assert_container(w, container_id)
    THEN Raise(w, "AssertionError")
    ELSE LET w1 == connectable_of(w, container_id, marker, route, fault)
         IN  IF w1.raised # None THEN w1 ELSE [ w1 EXCEPT !.ret = "url" ]

\* the methods of DockerTester that ask for a container
QueryMethods ==
    { "get_service_name", "get_logs", "dump_logs_to_stdout", "stop_container",
      "start_container", "inspect_container", "resolve_internal_ip",
      "resolve_custom_bridge_network_ip", "get_connectable_host_and_port",
      "base_url_for_container" }

\* what a call passes beside the container, and what the engine and the
\* host do during the call
Options ==
    [ only_once : BOOLEAN, marker : BOOLEAN, route : Routes, fault : BOOLEAN ]

\* the options a method reads; the others have one value
OptionsOf(method) ==
    { o \in Options :
        /\ method # "dump_logs_to_stdout" => o.only_once
        /\ method \notin { "get_connectable_host_and_port",
                            "base_url_for_container" } =>
              (~o.marker /\ o.route = "unavailable")
        /\ method = "get_service_name" => ~o.fault }

\* one of these methods, called with a container id or a service name
tester_call(w, method, designation, o) ==
    CASE method = "get_service_name" -> get_service_name(w, designation)
      [] method = "get_logs" -> get_logs(w, designation, o.fault)
      [] method = "dump_logs_to_stdout" ->
           dump_logs_to_stdout(w, designation, o.only_once, o.fault)
      [] method = "stop_container" -> stop_container(w, designation, o.fault)
      [] method = "start_container" -> start_container(w, designation, o.fault)
      [] method = "inspect_container" ->
           inspect_container(w, designation, o.fault)
      [] method = "resolve_internal_ip" ->
           resolve_internal_ip(w, designation, o.fault)
      [] method = "resolve_custom_bridge_network_ip" ->
           resolve_custom_bridge_network_ip(w, designation, o.fault)
      [] method = "get_connectable_host_and_port" ->
           connectable_of(w, designation, o.marker, o.route, o.fault)
      [] method = "base_url_for_container" ->
           base_url_for_container(w, designation, o.marker, o.route, o.fault)

(* ManagedContainer, dockertester.py 130-193 *)

\* the methods of ManagedContainer
HandleMethods ==
    (QueryMethods \ { "resolve_internal_ip",
                      "resolve_custom_bridge_network_ip" })
        \cup { "remove_container" }

\* dockertester.py 141-146: the property docker_tester: the weak reference
\* gives the DockerTester while the object is alive
docker_tester(alive) == alive

\* dockertester.py 148-193: a method of ManagedContainer hands its
\* container_id to the method of the same name of the DockerTester
handle_call(w, alive, method, container_id, o) ==
    IF ~docker_tester(alive) THEN Raise(w, "GarbageCollected")
    ELSE IF method = "remove_container"
    THEN remove(w, container_id, IF o.fault THEN { container_id } ELSE {})
    ELSE tester_call(w, method, container_id, o)

(* ------------------- resolution of a host and a port -------------------- *)

\* an optional value: Nothing is Python's None in the place of a number or
\* of a network
Nothing == {}
Some(v) == {v}

\* the most routes of a routing table, inspect answers of one port query
\* and bindings of one port
MaxRoutes == 2
MaxInspects == 2
MaxBindings == 2

\* the 32 bits of a.b.c.d, as the number of the upper 16 and the number
\* of the lower 16
Quad(a, b, c, d) == [ hi |-> a * 256 + b, lo |-> c * 256 + d ]

\* the first n of the 32 bits
Prefix(address, n) ==
    IF n <= 16
    THEN [ hi |-> address.hi \div 2 ^ (16 - n), lo |-> 0 ]
    ELSE [ hi |-> address.hi, lo |-> address.lo \div 2 ^ (32 - n) ]

\* the netmask of n ones
Netmask(n) ==
    IF n <= 16
    THEN [ hi |-> 65536 - 2 ^ (16 - n), lo |-> 0 ]
    ELSE [ hi |-> 65535, lo |-> 65536 - 2 ^ (32 - n) ]

\* ipaddress.ip_address: the strings it accepts and their values; it raises
\* ValueError for any other string
AddressValue ==
    "172.17.0.2" :> Quad(172, 17, 0, 2) @@
    "172.18.0.2" :> Quad(172, 18, 0, 2) @@
    "127.0.0.1" :> Quad(127, 0, 0, 1) @@
    "127.0.1.1" :> Quad(127, 0, 1, 1) @@
    "172.17.255.254" :> Quad(172, 17, 255, 254) @@
    "172.16.0.1" :> Quad(172, 16, 0, 1) @@
    "10.1.2.3" :> Quad(10, 1, 2, 3) @@
    "192.168.1.77" :> Quad(192, 168, 1, 77)

\* IPv4Address.is_loopback: the address lies in 127.0.0.0/8
is_loopback(address) == address.hi \div 256 = 127

\* the prefix length of a netmask, as IPv4Network computes it
PrefixLen(mask) == CHOOSE n \in 0..32 : mask = Netmask(n)

\* address in IPv4Network
Contains(net, address) ==
    Prefix(address, net.prefixlen) = Prefix(net.network_address, net.prefixlen)

\* dockertester.py 98-121: the entry parse_routing_table makes of one row;
\* row: destination, gateway and mask as numbers
RoutingTableEntry(row) ==
    IF row.destination = Quad(0, 0, 0, 0)
    THEN [ destination |-> row.destination, gateway |-> Some(row.gateway),
           mask |-> Nothing, network |-> Nothing ]
    ELSE [ destination |-> row.destination, gateway |-> Nothing,
           mask |-> Some(row.mask),
           network |-> Some([ network_address |-> row.destination,
                              prefixlen |-> PrefixLen(row.mask) ]) ]

\* an address is in the network when the numbers say so, loopback or not
in_network_by_numbers(entry, addr) ==
    IF entry.network = Nothing THEN "None"
    ELSE IF addr \notin DOMAIN AddressValue THEN "ValueError"
    ELSE IF \E net \in entry.network : Contains(net, AddressValue[addr])
    THEN "True"
    ELSE "False"

\* dockertester.py 78-88: RoutingTableEntry.in_network; "None", "False",
\* "True", or "ValueError" when ip_address raises
in_network(entry, addr) ==
    IF entry.network = Nothing THEN "None"
    ELSE IF addr \notin DOMAIN AddressValue THEN "ValueError"
    ELSE IF is_loopback(AddressValue[addr]) \/ is_loopback(entry.destination)
    THEN "False"
    ELSE IF \E net \in entry.network : Contains(net, AddressValue[addr])
    THEN "True"
    ELSE "False"

\* the rows of /proc/net/route: the default route, the default bridge, the
\* isolated network and a loopback network
Rows ==
    { [ destination |-> Quad(0, 0, 0, 0), gateway |-> Quad(172, 17, 0, 1),
        mask |-> Quad(0, 0, 0, 0) ],
      [ destination |-> Quad(172, 17, 0, 0), gateway |-> Quad(0, 0, 0, 0),
        mask |-> Quad(255, 255, 0, 0) ],
      [ destination |-> Quad(172, 18, 0, 0), gateway |-> Quad(0, 0, 0, 0),
        mask |-> Quad(255, 255, 0, 0) ],
      [ destination |-> Quad(127, 0, 0, 0), gateway |-> Quad(0, 0, 0, 0),
        mask |-> Quad(255, 0, 0, 0) ] }

\* the sequences of at most n elements of S, none of them twice
RECURSIVE Arrangements(_, _)
Arrangements(S, n) ==
    IF n = 0 THEN { << >> }
    ELSE { << >> } \cup
         { << x >> \o t : x \in S, t \in Arrangements(S, n - 1) }

NoRepeat(seq) ==
    \A j, k \in 1..Len(seq) : j # k => seq[j] # seq[k]

\* dockertester.py 91-127: what parse_routing_table returns: no table, or
\* the entries of the rows in their order
RoutingTables ==
    { [ available |-> FALSE, entries |-> << >> ] } \cup
    { [ available |-> TRUE,
        entries |-> [ k \in 1..Len(rows) |-> RoutingTableEntry(rows[k]) ] ] :
      rows \in { t \in Arrangements(Rows, MaxRoutes) : NoRepeat(t) } }

\* the host addresses and host ports of the bindings the engine reports
HostIps == { "", "0.0.0.0", "localhost", "192.168.1.5" }
HostPorts == { "32768", "49153" }

\* int() of a host port
IntValue == "32768" :> 32768 @@ "49153" :> 49153

Bindings == [ HostIp : HostIps, HostPort : HostPorts ]

\* the lists of at least one and at most n bindings
RECURSIVE BindingLists(_)
BindingLists(n) ==
    IF n = 0 THEN {}
    ELSE { << b >> : b \in Bindings } \cup
         { << b >> \o t : b \in Bindings, t \in BindingLists(n - 1) }

\* one answer of inspect_container for the key of the port: the key is
\* absent (or null), or it has a list; late: the 15 seconds of
\* get_bound_ports are over when the answer is there
Absent == [ present |-> FALSE, list |-> << >> ]
Listed(list) == [ present |-> TRUE, list |-> list ]
Answer(ports, late) == [ ports |-> ports, late |-> late ]

\* the answers that end the loop of get_bound_ports
LastAnswers(n) ==
    { Answer(Absent, late) : late \in BOOLEAN } \cup
    { Answer(Listed(<< >>), TRUE) } \cup
    { Answer(Listed(list), late) : list \in BindingLists(n), late \in BOOLEAN }

\* the answers get_bound_ports gets: empty lists in time, at most n - 1 of
\* them, and then an answer that ends its loop
AnswerSeqs(n, bindings) ==
    { [ k \in 1..m |-> Answer(Listed(<< >>), FALSE) ] \o << a >> :
      m \in 0..(n - 1), a \in LastAnswers(bindings) }

\* what a resolution returns or raises, and what it has asked the engine
\* and the host for
Return_(host, port, asked) ==
    [ kind |-> "return", host |-> host, port |-> port, exc |-> None,
      asked |-> asked ]
Raise_(exc, asked) ==
    [ kind |-> "raise", host |-> None, port |-> Nothing, exc |-> exc,
      asked |-> asked ]

\* dockertester.py 391-413: get_bound_ports over the answers of the engine
RECURSIVE get_bound_ports(_)
get_bound_ports(answers) ==
    LET bound_ports == Head(answers).ports
    IN  IF ~bound_ports.present
        THEN [ kind |-> "none", list |-> << >> ]
        ELSE IF Head(answers).late
        THEN [ kind |-> "timeout", list |-> << >> ]
        ELSE IF Len(bound_ports.list) = 0
        THEN get_bound_ports(Tail(answers))
        ELSE [ kind |-> "list", list |-> bound_ports.list ]

\* the 15 seconds of dockertester.py 406, in ticks of the clock
Deadline == 3

\* no call of get_bound_ports is under way
NoPoll ==
    [ pc |-> "idle", elapsed |-> 0, inspects |-> 0, answer |-> Absent,
      transient |-> FALSE, bound_ports |-> << >> ]

\* dockertester.py 392-396: the call has read the clock and enters the loop
poll_start ==
    [ pc |-> "loop", elapsed |-> 0, inspects |-> 0, answer |-> Absent,
      transient |-> FALSE, bound_ports |-> << >> ]

\* an empty list reported by the engine is returned to the caller
poll_step_no_retry(p, ports, dt) ==
    LET now == IF p.elapsed + dt > Deadline THEN Deadline ELSE p.elapsed + dt
        p1 == [ p EXCEPT !.elapsed = now, !.answer = ports,
                         !.inspects = IF @ < 2 THEN @ + 1 ELSE @ ]
    IN  IF ~ports.present
        THEN [ p1 EXCEPT !.pc = "returned_none" ]
        ELSE [ p1 EXCEPT !.pc = "returned_list", !.bound_ports = ports.list ]

\* dockertester.py 397-413: one turn of the loop of get_bound_ports: the
\* engine answers the inspect with ports while the clock goes on by dt;
\* inspects counts the inspects up to two
poll_step(p, ports, dt) ==
    LET now == IF p.elapsed + dt > Deadline THEN Deadline ELSE p.elapsed + dt
        p1 == [ p EXCEPT !.elapsed = now, !.answer = ports,
                         !.inspects = IF @ < 2 THEN @ + 1 ELSE @ ]
    IN  IF ~ports.present
        THEN [ p1 EXCEPT !.pc = "returned_none" ]
        ELSE IF now >= Deadline
        THEN [ p1 EXCEPT !.pc = "raised_timeout" ]
        ELSE IF Len(ports.list) = 0
        THEN [ p1 EXCEPT !.transient = TRUE ]
        ELSE [ p1 EXCEPT !.pc = "returned_list", !.bound_ports = ports.list ]

\* the binding taken from the list is one with an advertised host address,
\* when the list has one
first_binding_advertised(bound_ports) ==
    IF \E k \in 1..Len(bound_ports) :
         bound_ports[k].HostIp \notin { "", "0.0.0.0" }
    THEN bound_ports[CHOOSE k \in 1..Len(bound_ports) :
                       bound_ports[k].HostIp \notin { "", "0.0.0.0" }]
    ELSE bound_ports[1]

\* dockertester.py 379: the binding get_port_bindings takes from the list
first_binding(bound_ports) == bound_ports[1]

\* the host of a binding without the test for localhost
binding_host_unchecked(binding, docker_host, asked) ==
    IF binding.HostIp = "" \/ binding.HostIp = "0.0.0.0"
    THEN Return_(docker_host, Some(IntValue[binding.HostPort]), asked)
    ELSE Return_(binding.HostIp, Some(IntValue[binding.HostPort]), asked)

\* dockertester.py 380-389: the host and the port of a binding
binding_host(binding, docker_host, asked) ==
    LET host_ip == binding.HostIp
    IN  IF host_ip = "" \/ host_ip = "0.0.0.0"
        THEN Return_(docker_host, Some(IntValue[binding.HostPort]), asked)
        ELSE IF host_ip = "localhost" /\ docker_host # "localhost"
        THEN Raise_("Exception", asked)
        ELSE Return_(host_ip, Some(IntValue[binding.HostPort]), asked)

\* dockertester.py 368-389: get_port_bindings
get_port_bindings(c, asked) ==
    IF ~c.owned THEN Raise_("AssertionError", asked)
    ELSE LET bound_ports == get_bound_ports(c.answers)
             asked1 == Append(asked, "Ports")
         IN  IF bound_ports.kind = "none"
             THEN Return_(None, Nothing, asked1)
             ELSE IF bound_ports.kind = "timeout"
             THEN Raise_("Timeout", asked1)
             ELSE binding_host(first_binding(bound_ports.list),
                               c.docker_host, asked1)

\* dockertester.py 461-466 and 469-474: the first entry of the table that
\* decides for the address: "True" when an entry has the address in its
\* network, "ValueError" when in_network raises, else "False"
RECURSIVE route_to(_, _)
route_to(entries, addr) ==
    IF entries = << >> THEN "False"
    ELSE LET found == in_network(Head(entries), addr)
         IN  IF found \in { "True", "ValueError" } THEN found
             ELSE route_to(Tail(entries), addr)

\* the binding, without a look at the isolated network
resolve_custom_skipped(c, asked) ==
    get_port_bindings(c, Append(asked, "Networks"))

\* dockertester.py 468-482: the isolated network and then the binding
resolve_custom(c, asked) ==
    LET asked1 == Append(asked, "Networks")
    IN  IF ~c.attached THEN Raise_("KeyError", asked1)
        ELSE LET routed == route_to(c.routing_table.entries, c.custom_ip)
             IN  IF routed = "ValueError" THEN Raise_("ValueError", asked1)
                 ELSE IF routed = "True"
                 THEN Return_(c.custom_ip, Some(c.internal_port), asked1)
                 ELSE get_port_bindings(c, asked1)

\* a table that is not available taken for a table without entries
resolve_internal_pessimistic(c) ==
    IF ~c.owned THEN Raise_("EngineError", << >>)
    ELSE LET routed == route_to(c.routing_table.entries, c.default_ip)
         IN  IF routed = "ValueError"
             THEN Raise_("ValueError", << "IPAddress", "route" >>)
             ELSE IF routed = "True"
             THEN Return_(c.default_ip, Some(c.internal_port),
                          << "IPAddress", "route" >>)
             ELSE resolve_custom(c, << "IPAddress", "route" >>)

\* dockertester.py 452-482: get_connectable_host_and_port when the marker
\* file is not there
resolve_internal(c) ==
    IF ~c.owned THEN Raise_("EngineError", << >>)
    ELSE IF ~c.routing_table.available
    THEN Return_(c.default_ip, Some(c.internal_port),
                 << "IPAddress", "route" >>)
    ELSE LET routed == route_to(c.routing_table.entries, c.default_ip)
         IN  IF routed = "ValueError"
             THEN Raise_("ValueError", << "IPAddress", "route" >>)
             ELSE IF routed = "True"
             THEN Return_(c.default_ip, Some(c.internal_port),
                          << "IPAddress", "route" >>)
             ELSE resolve_custom(c, << "IPAddress", "route" >>)

\* the marker file looked for only when no internal route is found
get_connectable_marker_last(c) ==
    LET r == resolve_internal(c)
    IN  IF c.marker /\ "Ports" \in { r.asked[k] : k \in 1..Len(r.asked) }
        THEN get_port_bindings(c, << >>)
        ELSE r

\* dockertester.py 427-482: get_connectable_host_and_port
get_connectable_host_and_port(c) ==
    IF c.marker THEN get_port_bindings(c, << >>)
    ELSE resolve_internal(c)

\* the addresses the engine reports for a container: "" when it has none
DefaultIps == { "172.17.0.2", "127.0.0.1", "" }
CustomIps == { "172.18.0.2", "" }

DockerHosts == { "localhost", "remote-ci" }
InternalPorts == { 5432, 27017 }

\* the calls of get_connectable_host_and_port
ConnectableCalls ==
    [ marker : BOOLEAN, owned : BOOLEAN, attached : BOOLEAN,
      default_ip : DefaultIps, custom_ip : CustomIps,
      routing_table : RoutingTables,
      answers : AnswerSeqs(1, 1),
      docker_host : DockerHosts, internal_port : InternalPorts ]

\* the calls of get_port_bindings, which reads neither the marker, nor the
\* table, nor the addresses
BindingCalls ==
    [ marker : { FALSE }, owned : BOOLEAN, attached : { TRUE },
      default_ip : { "172.17.0.2" }, custom_ip : { "172.18.0.2" },
      routing_table : { [ available |-> FALSE, entries |-> << >> ] },
      answers : AnswerSeqs(MaxInspects, MaxBindings),
      docker_host : DockerHosts, internal_port : InternalPorts ]

NoCall ==
    [ marker |-> FALSE, owned |-> FALSE, attached |-> FALSE,
      default_ip |-> "", custom_ip |-> "",
      routing_table |-> [ available |-> FALSE, entries |-> << >> ],
      answers |-> << >>, docker_host |-> "localhost", internal_port |-> 0 ]

NoOutcome ==
    [ op |-> "none", kind |-> "none", host |-> None, port |-> Nothing,
      exc |-> None, asked |-> << >> ]

Outcome(op, r) ==
    [ op |-> op, kind |-> r.kind, host |-> r.host, port |-> r.port,
      exc |-> r.exc, asked |-> r.asked ]

(* ----------------------------- actions ---------------------------------- *)

\* the arguments of an operation, written to the record of the last
\* operation; a field an operation does not take is None
NoArgs ==
    [ id |-> None, image |-> DockerImage(None, None, FALSE),
      service_name |-> None, ports |-> None, mounts |-> FALSE,
      fault |-> None, method |-> None, only_once |-> FALSE ]

\* the maps and the sets an operation finds
Before ==
    [ owned |-> owned_containers, services |-> services,
      updated |-> updated_images,
      attempted |-> pull_attempted, log_dumped |-> container_log_dumped,
      dump_attempted |-> dump_attempted ]

NoOp == [ op |-> "none", arg |-> NoArgs, calls |-> << >>, raised |-> None,
          ret |-> None, created |-> None, config_image |-> None,
          owned_before |-> {},
          before |-> [ owned |-> EmptyMap, services |-> EmptyMap,
                       updated |-> {}, attempted |-> {}, log_dumped |-> {},
                       dump_attempted |-> {} ] ]

\* what an operation of DockerTester leaves in the DockerTester, in the
\* engine and in the record of the last operation
Effect(op, arg, w) ==
    /\ owned_containers' = w.owned
    /\ services' = w.services
    /\ updated_images' = w.updated
    /\ pull_attempted' = w.attempted
    /\ dump_attempted' = w.dump_attempted
    /\ container_log_dumped' = w.log_dumped
    /\ handles' = IF op = "launch" /\ w.ret # None
                  THEN handles \cup { w.ret }
                  ELSE handles
    /\ network' = w.network
    /\ containers' = w.containers
    /\ names' = w.names
    /\ next_id' = w.next_id
    /\ last' = [ op |-> op, arg |-> arg, calls |-> w.calls,
                 raised |-> w.raised, ret |-> w.ret, created |-> w.created,
                 config_image |-> w.config_image,
                 owned_before |-> DOMAIN owned_containers,
                 before |-> Before ]

\* the state after an operation of DockerTester
Apply(op, arg, w) ==
    /\ Effect(op, arg, w)
    /\ UNCHANGED << call, outcome, aux_vars >>

\* before the session: dockertester.py 222-225 give the empty maps once the
\* object is constructed
TesterInit ==
    /\ fixture_pc = "start"
    /\ owned_containers = EmptyMap
    /\ services = EmptyMap
    /\ updated_images = {}
    /\ container_log_dumped = {}
    /\ handles = {}
    /\ pull_attempted = {}
    /\ dump_attempted = {}
    /\ network = "none"
    /\ containers = [ i \in Ids |-> "absent" ]
    /\ names = [ i \in Ids |-> None ]
    /\ next_id = 1
    /\ last = NoOp

\* no resolution is called in the session modelled by Spec
Init ==
    /\ TesterInit
    /\ call = NoCall
    /\ outcome = NoOutcome
    /\ poll = NoPoll
    /\ removal = NoRemoval
    /\ observed = NoObservation
    /\ NoManager

\* core_fixtures.py 62-71 with dockertester.py 208-228: the fixture
\* constructs the DockerTester, which creates the isolated network
FixtureConstruct ==
    /\ fixture_pc = "start"
    /\ \E ok \in BOOLEAN :
         /\ fixture_pc' = IF ok THEN "constructed" ELSE "error"
         /\ Apply("construct", NoArgs,
                  IF ok
                  THEN [ Call(World, "network.create", None)
                           EXCEPT !.network = "created" ]
                  ELSE Failed(Call(World, "network.create", None)))

\* core_fixtures.py 73-81: the registry login, when a user name is set
fixture_login(w, username, password, ok) ==
    IF ~username THEN w
    ELSE IF ~password THEN Raise(w, "Exception")
    ELSE IF ~ok THEN Failed(Call(w, "login", None))
    ELSE Call(w, "login", None)

\* core_fixtures.py 73-84: an exception of the login leaves the fixture
\* before its try statement; otherwise the fixture yields the DockerTester
FixtureLogin ==
    /\ fixture_pc = "constructed"
    /\ \E username \in BOOLEAN, password \in BOOLEAN, ok \in BOOLEAN :
         LET w == fixture_login(World, username, password, ok)
         IN  /\ (~ok => username /\ password)
             /\ fixture_pc' = IF w.raised = None THEN "yielded" ELSE "error"
             /\ Apply("login", NoArgs, w)

\* the caller has seen the outcome of the last operation and goes on
Return ==
    /\ fixture_pc \in { "yielded", "ended", "collected" }
    /\ last.op # "none"
    /\ last' = NoOp
    /\ UNCHANGED << fixture_pc, owned_containers, services, updated_images,
                    container_log_dumped, handles, pull_attempted,
                    dump_attempted, network,
                    containers, names, next_id, call, outcome,
                    aux_vars >>

\* the tests call the DockerTester between two operations
Idle == fixture_pc = "yielded" /\ last.op = "none"

\* core_fixtures.py 86-87: the finally clause of the fixture, at session end
FixtureTeardown ==
    /\ Idle
    /\ \E faults \in SUBSET (DOMAIN owned_containers), net_fault \in BOOLEAN :
         /\ fixture_pc' = "ended"
         /\ Apply("remove_all", NoArgs, remove_all(World, faults, net_fault))

\* a test calls launch_container, with one of these images and one of
\* these shapes of ports
LaunchOf(images, shapes) ==
    /\ Idle
    /\ next_id <= MaxContainers
    /\ \E image \in images, service_name \in ServiceNames,
          ports \in shapes, mounts \in BOOLEAN, fault \in LaunchFaults :
         /\ fault_applies(World, image, service_name, ports, mounts, fault)
         /\ Apply("launch",
                  [ NoArgs EXCEPT !.image = image,
                                  !.service_name = service_name,
                                  !.ports = ports, !.mounts = mounts,
                                  !.fault = fault ],
                  launch_container(World, image, service_name, ports, mounts,
                                   fault))
         /\ UNCHANGED fixture_pc

\* a test calls launch_container
Launch == LaunchOf(Images, PortsShapes)

\* a test calls remove
Remove ==
    /\ Idle
    /\ \E container_id \in Ids, fault \in BOOLEAN :
         /\ fault => container_id \in DOMAIN owned_containers
         /\ Apply("remove", [ NoArgs EXCEPT !.id = container_id ],
                  remove(World, container_id,
                         IF fault THEN {container_id} ELSE {}))
         /\ UNCHANGED fixture_pc

\* a test calls remove_all
RemoveAll ==
    /\ Idle
    /\ \E faults \in SUBSET (DOMAIN owned_containers), net_fault \in BOOLEAN :
         /\ Apply("remove_all", NoArgs, remove_all(World, faults, net_fault))
         /\ UNCHANGED fixture_pc

\* a test calls stop_container
StopContainer ==
    /\ Idle
    /\ \E name_or_id \in Ids \cup ServiceNames, fault \in BOOLEAN :
         /\ fault => find_id(World, name_or_id) # None
         /\ Apply("stop", [ NoArgs EXCEPT !.id = name_or_id ],
                  stop_container(World, name_or_id, fault))
         /\ UNCHANGED fixture_pc

\* a test calls start_container
StartContainer ==
    /\ Idle
    /\ \E name_or_id \in Ids \cup ServiceNames, fault \in BOOLEAN :
         /\ fault => find_id(World, name_or_id) # None
         /\ Apply("start", [ NoArgs EXCEPT !.id = name_or_id ],
                  start_container(World, name_or_id, fault))
         /\ UNCHANGED fixture_pc

Next ==
    \/ FixtureConstruct
    \/ FixtureLogin
    \/ FixtureTeardown
    \/ Return
    \/ Launch
    \/ Remove
    \/ RemoveAll
    \/ StopContainer
    \/ StartContainer

Spec == Init /\ [][Next]_vars

\* the ids a test can pass: those of the containers of the session and one
\* that no container has
KnownIds == { IdSeq[k] : k \in 1..(MaxContainers + 1) }

\* a test calls a method of DockerTester that asks for a container
Query ==
    /\ Idle
    /\ \E method \in QueryMethods, designation \in KnownIds \cup ServiceNames :
         \E o \in OptionsOf(method) :
           /\ Apply(method, [ NoArgs EXCEPT !.id = designation ],
                    tester_call(World, method, designation, o))
           /\ UNCHANGED fixture_pc

\* the session is over and nothing refers to the DockerTester any more:
\* the object is collected
Collect ==
    /\ fixture_pc = "ended"
    /\ last.op = "none"
    /\ fixture_pc' = "collected"
    /\ UNCHANGED << owned_containers, services, updated_images,
                    container_log_dumped, handles, pull_attempted,
                    dump_attempted, network,
                    containers, names, next_id, last, call, outcome,
                    aux_vars >>

\* a method of a ManagedContainer that launch has returned is called,
\* between two operations of the session or after its end
HandleCall ==
    /\ fixture_pc \in { "yielded", "ended", "collected" }
    /\ last.op = "none"
    /\ \E container_id \in handles, method \in HandleMethods :
         \E o \in OptionsOf(method) :
           /\ Apply("handle",
                    [ NoArgs EXCEPT !.id = container_id, !.method = method ],
                    handle_call(World, fixture_pc # "collected", method,
                                container_id, o))
           /\ UNCHANGED fixture_pc

\* a test launches a local-only image
LaunchLocal == LaunchOf({ DockerImage("mongo", None, TRUE) }, { "dict" })

NextHandles ==
    \/ FixtureConstruct
    \/ FixtureLogin
    \/ FixtureTeardown
    \/ Return
    \/ LaunchLocal
    \/ Remove
    \/ Query
    \/ Collect
    \/ HandleCall

\* a session of launches of a local-only image, with the calls that ask
\* for a container and the calls of the handles
SpecHandles == Init /\ [][NextHandles]_vars

TypeOK ==
    /\ fixture_pc \in { "start", "constructed", "yielded", "ended", "error",
                       "collected" }
    /\ DOMAIN owned_containers \subseteq Ids
    /\ DOMAIN services \subseteq Ids
    /\ network \in { "none", "created", "removed" }
    /\ next_id \in 1..(MaxContainers + 1)

\* a session in which the tests resolve a host and a port
InitResolve ==
    /\ TesterInit
    /\ call \in ConnectableCalls \cup BindingCalls
    /\ outcome = NoOutcome
    /\ poll = NoPoll
    /\ removal = NoRemoval
    /\ observed = NoObservation
    /\ NoManager

\* a test calls get_connectable_host_and_port
GetConnectableHostAndPort ==
    /\ outcome.op = "none"
    /\ outcome' = Outcome("get_connectable_host_and_port",
                          get_connectable_host_and_port(call))
    /\ UNCHANGED << tester_vars, call, aux_vars >>

\* a test calls get_port_bindings
GetPortBindings ==
    /\ outcome.op = "none"
    /\ outcome' = Outcome("get_port_bindings",
                          get_port_bindings(call, << >>))
    /\ UNCHANGED << tester_vars, call, aux_vars >>

NextResolve ==
    \/ GetConnectableHostAndPort
    \/ GetPortBindings

SpecResolve == InitResolve /\ [][NextResolve]_vars

\* the answers of the engine to one inspect, for the key of the port
PortAnswers ==
    { Absent, Listed(<< >>) } \cup { Listed(l) : l \in BindingLists(MaxBindings) }

\* a session in which the tests call get_bound_ports
InitBoundPorts ==
    /\ TesterInit
    /\ call = NoCall
    /\ outcome = NoOutcome
    /\ poll = NoPoll
    /\ removal = NoRemoval
    /\ observed = NoObservation
    /\ NoManager

\* a test calls get_bound_ports
GetBoundPortsCall ==
    /\ poll.pc = "idle"
    /\ poll' = poll_start
    /\ UNCHANGED << tester_vars, call, outcome, concurrent_vars,
                 manager_vars >>

\* one inspect of the loop, during which the clock stands still
GetBoundPortsInspect ==
    /\ poll.pc = "loop"
    /\ \E ports \in PortAnswers : poll' = poll_step(poll, ports, 0)
    /\ UNCHANGED << tester_vars, call, outcome, concurrent_vars,
                 manager_vars >>

\* one inspect of the loop, during which the clock goes on
GetBoundPortsInspectTick ==
    /\ poll.pc = "loop"
    /\ \E ports \in PortAnswers : poll' = poll_step(poll, ports, 1)
    /\ UNCHANGED << tester_vars, call, outcome, concurrent_vars,
                 manager_vars >>

\* the caller has the result and is ready for another call
GetBoundPortsDone ==
    /\ poll.pc \in { "returned_list", "returned_none", "raised_timeout" }
    /\ poll' = NoPoll
    /\ UNCHANGED << tester_vars, call, outcome, concurrent_vars,
                 manager_vars >>

NextBoundPorts ==
    \/ GetBoundPortsCall
    \/ GetBoundPortsInspect
    \/ GetBoundPortsInspectTick
    \/ GetBoundPortsDone

\* the engine answers every inspect, and time.time() goes on while
\* get_bound_ports waits for the answers
SpecBoundPorts ==
    /\ InitBoundPorts
    /\ [][NextBoundPorts]_vars
    /\ WF_vars(GetBoundPortsInspectTick)

(* remove, dockertester.py 343-347, statement by statement, beside a reader
   in another thread *)

\* what the maps and the engine have for an id
Lookup(container_id) ==
    Found(container_id \in DOMAIN owned_containers,
          container_id \in DOMAIN services,
          containers[container_id] # "absent")

\* the operation that ends here, as the record of the last operation
Ended(op, container_id, w) ==
    [ op |-> op, arg |-> [ NoArgs EXCEPT !.id = container_id ],
      calls |-> w.calls, raised |-> w.raised, ret |-> w.ret,
      created |-> w.created, config_image |-> w.config_image,
      owned_before |-> DOMAIN owned_containers,
      before |-> Before ]

\* dockertester.py 344: remove is called and asserts the container; for an
\* id that is not owned the call ends here
RemoveAssert ==
    /\ Idle
    /\ removal.pc = "idle"
    /\ \E container_id \in KnownIds :
         IF assert_container(World, container_id)
         THEN /\ removal' = [ pc |-> "asserted", id |-> container_id,
                               old |-> Lookup(container_id) ]
              /\ UNCHANGED last
         ELSE /\ last' = Ended("remove", container_id,
                               Raise(World, "AssertionError"))
              /\ UNCHANGED removal
    /\ UNCHANGED << fixture_pc, owned_containers, services, updated_images,
                    container_log_dumped, handles, pull_attempted,
                    dump_attempted, network,
                    containers, names, next_id, call, outcome, poll,
                    manager_vars, observed >>

\* dockertester.py 345: the engine removes the container, or raises, which
\* ends the call
RemoveFromEngine ==
    /\ removal.pc = "asserted"
    /\ \E fault \in BOOLEAN :
         LET w1 == Call(World, "remove", removal.id)
         IN  IF engine_remove_ok(w1, removal.id,
                                 IF fault THEN { removal.id } ELSE {})
             THEN /\ containers' = [ containers EXCEPT ![removal.id] = "absent" ]
                  /\ removal' = [ removal EXCEPT !.pc = "removed" ]
                  /\ UNCHANGED last
             ELSE /\ last' = Ended("remove", removal.id, Failed(w1))
                  /\ removal' = NoRemoval
                  /\ UNCHANGED containers
    /\ UNCHANGED << fixture_pc, owned_containers, services, updated_images,
                    container_log_dumped, handles, pull_attempted,
                    dump_attempted, network,
                    names, next_id, call, outcome, poll, manager_vars,
                    observed >>

\* dockertester.py 346: del self._owned_containers[container_id]
RemoveDelOwned ==
    /\ removal.pc = "removed"
    /\ owned_containers' = Del(owned_containers, removal.id)
    /\ removal' = [ removal EXCEPT !.pc = "owned_deleted" ]
    /\ UNCHANGED << fixture_pc, services, updated_images,
                    container_log_dumped, handles, pull_attempted,
                    dump_attempted, network,
                    containers, names, next_id, last, call, outcome, poll,
                    manager_vars, observed >>

\* dockertester.py 347: del self._services[container_id]; remove returns
RemoveDelServices ==
    /\ removal.pc = "owned_deleted"
    /\ services' = Del(services, removal.id)
    /\ removal' = NoRemoval
    /\ last' = [ Ended("remove", removal.id,
                       Call(World, "remove", removal.id))
                   EXCEPT !.owned_before = @ \cup { removal.id } ]
    /\ UNCHANGED << fixture_pc, owned_containers, updated_images,
                    container_log_dumped, handles, pull_attempted,
                    dump_attempted, network,
                    containers, names, next_id, call, outcome, poll,
                    manager_vars, observed >>

\* a thread that holds a handle looks, in one step, for the id of the
\* handle in both maps and in the engine (as get_service_name, find_id and
\* get_logs do)
Observe ==
    /\ fixture_pc = "yielded"
    /\ \E container_id \in handles :
         observed' = [ id |-> container_id, found |-> Lookup(container_id),
                       removing |-> removal.id, old |-> removal.old ]
    /\ UNCHANGED << tester_vars, call, outcome, poll, manager_vars,
                    removal >>

NextConcurrent ==
    \/ FixtureConstruct
    \/ FixtureLogin
    \/ Return
    \/ LaunchLocal
    \/ RemoveAssert
    \/ RemoveFromEngine
    \/ RemoveDelOwned
    \/ RemoveDelServices
    \/ Observe

\* a session in which a second thread reads while the tests launch and
\* remove containers
SpecConcurrent == Init /\ [][NextConcurrent]_vars

(* ------------------------ the dumps of the logs ------------------------- *)

\* a test calls dump_logs_to_stdout; the call is remembered when it asks
\* the engine for the logs on behalf of only_once
DumpLogs ==
    /\ Idle
    /\ \E container_id \in KnownIds, only_once \in BOOLEAN,
          fault \in BOOLEAN :
         LET w == dump_logs_to_stdout(World, container_id, only_once, fault)
             asked == only_once /\ w.calls # << >>
         IN  /\ Apply("dump_logs_to_stdout",
                      [ NoArgs EXCEPT !.id = container_id,
                                      !.only_once = only_once,
                                      !.fault = IF fault THEN "logs"
                                                ELSE "none" ],
                      [ w EXCEPT !.dump_attempted =
                                   IF asked THEN @ \cup { container_id }
                                   ELSE @ ])
             /\ UNCHANGED fixture_pc

\* a test launches a local-only image or one that is pulled
LaunchEither ==
    LaunchOf({ DockerImage("mongo", None, TRUE),
               DockerImage("mongo", "latest", FALSE) }, { "dict" })

NextDump ==
    \/ FixtureConstruct
    \/ FixtureLogin
    \/ Return
    \/ LaunchEither
    \/ StopContainer
    \/ StartContainer
    \/ DumpLogs

\* a session in which the tests dump the logs of their containers, and
\* stop and start them
SpecDump == Init /\ [][NextDump]_vars

(* -------------------- the aliases of a container ------------------------ *)

\* the longest tuple of additional DNS names a launch is given
MaxAliases == 2

\* the names a test passes as additional DNS names; a name may repeat, be
\* the service name, or look like a name under the virtual domain
DnsNames == { "db", "cache", "db.test.loc" }

\* dockertester.py 213: the virtual domain of the DockerTester, or None
VirtualDomains == { None, "test.loc" }

\* the elements of a list
Range(seq) == { seq[i] : i \in DOMAIN seq }

\* the tuples of at most n elements of S
Tuples(S, n) == UNION { [ 1..k -> S ] : k \in 0..n }

\* the orders in which the elements of a Python set are iterated
Orders(S) == { seq \in [ 1..Cardinality(S) -> S ] : Range(seq) = S }

\* an alias is attached under the virtual domain only
alias_entries_domain_only(alias, virtual_domain) ==
    IF virtual_domain # None
    THEN << alias \o "." \o virtual_domain >>
    ELSE << alias >>

\* dockertester.py 309-311: the body of the loop over the aliases
alias_entries(alias, virtual_domain) ==
    << alias >>
    \o (IF virtual_domain # None
        THEN << alias \o "." \o virtual_domain >>
        ELSE << >>)

\* dockertester.py 307-311: the list of aliases, for one order of iteration
\* of the set {service_name} | set(additional_dns_names)
RECURSIVE connect_aliases(_, _)
connect_aliases(order, virtual_domain) ==
    IF order = << >> THEN << >>
    ELSE alias_entries(Head(order), virtual_domain)
         \o connect_aliases(Tail(order), virtual_domain)

\* the launches, as far as the aliases go
AliasCalls ==
    [ service_name : ServiceNames,
      additional_dns_names : Tuples(DnsNames, MaxAliases),
      virtual_domain : VirtualDomains ]

InitAliases ==
    /\ TesterInit
    /\ call \in AliasCalls
    /\ outcome = NoOutcome
    /\ poll = NoPoll
    /\ removal = NoRemoval
    /\ observed = NoObservation
    /\ NoManager

\* dockertester.py 307-314: launch_container builds the aliases and hands
\* them to the network
ConnectAliases ==
    /\ outcome.op = "none"
    /\ \E order \in Orders({ call.service_name }
                            \cup Range(call.additional_dns_names)) :
         outcome' = [ op |-> "connect",
                      aliases |-> connect_aliases(order,
                                                  call.virtual_domain) ]
    /\ UNCHANGED << tester_vars, call, aux_vars >>

NextAliases == ConnectAliases

\* the launches of every service name with every tuple of additional names
SpecAliases == InitAliases /\ [][NextAliases]_vars

(* ------------------ image names, character by character ----------------- *)

\* the longest image name that is parsed
MaxLen == 5

\* the line feed
NL == "\n"

\* the characters of the names: two of the class [a-z0-9-_.], the two
\* separators, a character outside the class, and the line feed
Chars == { "a", "1", "/", ":", "A", NL }

\* a name is the list of its characters
Strings(n) == UNION { [ 1..k -> Chars ] : k \in 0..n }

\* images.py 9: the class [a-z0-9-_.]
InClass(c) == c \in { "a", "1" }

\* images.py 9: [a-z0-9-_.]+ matches the whole of str
IsWord(str) == str # << >> /\ \A i \in DOMAIN str : InClass(str[i])

\* images.py 9: .* matches the whole of str: any character but the line
\* feed
IsAny(str) == \A i \in DOMAIN str : str[i] # NL

\* images.py 9: the places where $ matches: the end of the string, and the
\* place before a line feed that ends the string
Ends(str) ==
    { Len(str) } \cup
    (IF str # << >> /\ str[Len(str)] = NL THEN { Len(str) - 1 } ELSE {})

\* the groups of a match
Groups(docker_registry, image_name, image_tag) ==
    [ docker_registry |-> docker_registry, image_name |-> image_name,
      image_tag |-> image_tag ]

\* images.py 8-10: the ways _image_re matches from the start of str.
\* first: where the name starts (after the "/" of the registry group, if
\* that group takes part); colon: where the name ends
Matches(str) ==
    { Groups(IF first = 1 THEN Nothing
             ELSE Some(SubSeq(str, 1, first - 2)),
             SubSeq(str, first, colon - 1),
             IF colon > end THEN Nothing
             ELSE Some(SubSeq(str, colon + 1, end))) :
        << first, colon, end >> \in
          { t \in (1..(Len(str) + 1)) \X (1..(Len(str) + 1))
                    \X (0..Len(str)) :
              /\ t[3] \in Ends(str)
              /\ t[1] <= t[2] /\ t[2] <= t[3] + 1
              /\ t[1] > 1 => /\ str[t[1] - 1] = "/"
                             /\ IsAny(SubSeq(str, 1, t[1] - 2))
              /\ IsWord(SubSeq(str, t[1], t[2] - 1))
              /\ t[2] <= t[3] => /\ str[t[2]] = ":"
                                 /\ IsWord(SubSeq(str, t[2] + 1, t[3])) } }

\* the length of an optional string, less than 0 when it is None
Greed(optional) ==
    IF optional = Nothing THEN 0 - 1
    ELSE Len(CHOOSE str \in optional : TRUE)

\* images.py 13-19: the dataclass DockerImage, with its registry
RegistryImage(image_name, image_tag, docker_registry, use_local) ==
    [ image_name |-> image_name, image_tag |-> image_tag,
      docker_registry |-> docker_registry, use_local |-> use_local ]

\* no image: what a call that raised has returned
NoImage == RegistryImage(<< >>, Nothing, Nothing, FALSE)

\* an optional string is there and not empty (Python's truth of a string)
Truthy(optional) == optional # Nothing /\ optional # Some(<< >>)

\* the string of an optional string that is there
The(optional) == CHOOSE str \in optional : TRUE

\* images.py 21-28: DockerImage.tagless_name
tagless_name(image) ==
    IF Truthy(image.docker_registry)
    THEN The(image.docker_registry) \o << "/" >> \o image.image_name
    ELSE image.image_name

\* images.py 30-39: DockerImage.full_name, with the registry
canonical_name(image) ==
    IF Truthy(image.image_tag)
    THEN tagless_name(image) \o << ":" >> \o The(image.image_tag)
    ELSE tagless_name(image)

\* images.py 80-100: DockerImage.from_name: the groups of the match the
\* regular expression finds first (it is greedy: the registry group takes
\* part and is as long as can be), or a ValueError
from_name(name, use_local) ==
    IF Matches(name) = {}
    THEN [ raised |-> "ValueError", image |-> NoImage ]
    ELSE LET m == CHOOSE g \in Matches(name) :
                    \A h \in Matches(name) :
                      Greed(g.docker_registry) >= Greed(h.docker_registry)
         IN  [ raised |-> None,
               image |-> RegistryImage(m.image_name, m.image_tag,
                                       m.docker_registry, use_local) ]

\* images.py 103-118: docker_image
docker_image(name, use_local) == from_name(name, use_local)

\* the calls of docker_image
ImageCalls == [ name : Strings(MaxLen), use_local : BOOLEAN ]

InitImages ==
    /\ TesterInit
    /\ call \in ImageCalls
    /\ outcome = NoOutcome
    /\ poll = NoPoll
    /\ removal = NoRemoval
    /\ observed = NoObservation
    /\ NoManager

\* tests/test_images.py: a test calls docker_image and reads full_name
DockerImageCall ==
    /\ outcome.op = "none"
    /\ LET r == docker_image(call.name, call.use_local)
       IN  outcome' = [ op |-> "docker_image", raised |-> r.raised,
                        image |-> r.image,
                        full_name |-> IF r.raised = None
                                      THEN canonical_name(r.image)
                                      ELSE << >>,
                        again |-> r ]
    /\ UNCHANGED << tester_vars, call, aux_vars >>

\* the test parses the full name it has read
RoundTrip ==
    /\ outcome.op = "docker_image"
    /\ outcome.raised = None
    /\ outcome' = [ outcome EXCEPT
                      !.op = "round_trip",
                      !.again = docker_image(outcome.full_name, FALSE) ]
    /\ UNCHANGED << tester_vars, call, aux_vars >>

NextImages ==
    \/ DockerImageCall
    \/ RoundTrip

\* the calls of docker_image with every name of at most MaxLen characters
SpecImages == InitImages /\ [][NextImages]_vars

(* ------------------------- docker registries ---------------------------- *)

\* images.py 121-127: the dataclass DockerRegistry, without its credentials
DockerRegistry(name, registry, default_tag) ==
    [ name |-> name, registry |-> registry, default_tag |-> default_tag ]

\* images.py 54-62: DockerImage.with_docker_registry
with_docker_registry(image, docker_registry) ==
    RegistryImage(image.image_name, image.image_tag, docker_registry,
                  image.use_local)

\* images.py 41-52: DockerImage.with_image_tag, for an image with its
\* registry
with_tag(image, image_tag) ==
    RegistryImage(image.image_name, image_tag, image.docker_registry,
                  image.use_local)

\* the default tag of the registry takes the place of the tag of the name
registry_image_tag_replaced(entry, image_name, use_local) ==
    LET r == docker_image(image_name, use_local)
        image == IF r.image.docker_registry = Nothing
                 THEN with_docker_registry(r.image, entry.registry)
                 ELSE r.image
    IN  IF r.raised # None THEN r
        ELSE IF r.image.docker_registry # Nothing
                /\ r.image.docker_registry # entry.registry
        THEN [ raised |-> "ValueError(Mismatched docker registries)",
               image |-> NoImage ]
        ELSE [ raised |-> None,
               image |-> IF entry.default_tag # Nothing
                         THEN with_tag(image, entry.default_tag)
                         ELSE image ]

\* images.py 129-142: DockerRegistry.image
registry_image(entry, image_name, use_local) ==
    LET r == docker_image(image_name, use_local)
        image == IF r.image.docker_registry = Nothing
                 THEN with_docker_registry(r.image, entry.registry)
                 ELSE r.image
    IN  IF r.raised # None THEN r
        ELSE IF r.image.docker_registry # Nothing
                /\ r.image.docker_registry # entry.registry
        THEN [ raised |-> "ValueError(Mismatched docker registries)",
               image |-> NoImage ]
        ELSE [ raised |-> None,
               image |-> IF entry.default_tag # Nothing
                            /\ image.image_tag = Nothing
                         THEN with_tag(image, entry.default_tag)
                         ELSE image ]

\* the registries of the tests: with a host or without, with a default tag
\* or without
Registries ==
    { DockerRegistry("public", registry, default_tag) :
        registry \in { Nothing, Some(<< "a" >>), Some(<< "1" >>) },
        default_tag \in { Nothing, Some(<< "1" >>) } }

\* the calls of DockerRegistry.image, with the names made of one character
\* of the class and the two separators
RegistryCalls ==
    [ entry : Registries,
      name : { str \in Strings(MaxLen) :
                 \A i \in DOMAIN str : str[i] \in { "a", "/", ":" } },
      use_local : BOOLEAN ]

InitRegistry ==
    /\ TesterInit
    /\ call \in RegistryCalls
    /\ outcome = NoOutcome
    /\ poll = NoPoll
    /\ removal = NoRemoval
    /\ observed = NoObservation
    /\ NoManager

\* databases.py 33: a fixture asks a registry for an image
RegistryImageCall ==
    /\ outcome.op = "none"
    /\ LET r == registry_image(call.entry, call.name, call.use_local)
       IN  outcome' = [ op |-> "image", raised |-> r.raised,
                        image |-> r.image ]
    /\ UNCHANGED << tester_vars, call, aux_vars >>

NextRegistry == RegistryImageCall

\* the calls of DockerRegistry.image
SpecRegistry == InitRegistry /\ [][NextRegistry]_vars

(* ----------------------- the DockerImageManager ------------------------- *)

\* the registries the fixtures register: three names, with a host or
\* without
ManagerEntries ==
    { DockerRegistry(name, registry, Nothing) :
        name \in { "public", "build", "mirror" },
        registry \in { Nothing, Some(<< "a" >>), Some(<< "1" >>) } }

\* the two indexes of the DockerImageManager
Manager ==
    [ by_name |-> registries_by_name, by_registry |-> registries_by_registry,
      raised |-> None ]

\* only the name of the registry is tested
add_registry_name_only(m, registry) ==
    IF registry.name \in DOMAIN m.by_name
    THEN [ m EXCEPT !.raised = "ValueError" ]
    ELSE [ m EXCEPT !.by_name = Put(@, registry.name, registry),
                    !.by_registry = Put(@, registry.registry, registry) ]

\* images.py 177-187: DockerImageManager.add_registry
add_registry(m, registry) ==
    IF registry.name \in DOMAIN m.by_name
    THEN [ m EXCEPT !.raised = "ValueError" ]
    ELSE IF registry.registry \in DOMAIN m.by_registry
    THEN [ m EXCEPT !.raised = "ValueError" ]
    ELSE [ m EXCEPT !.by_name = Put(@, registry.name, registry),
                    !.by_registry = Put(@, registry.registry, registry) ]

\* a fixture registers a registry; the call, its outcome and the indexes
\* it found are written down
AddRegistry ==
    \E registry \in ManagerEntries :
      LET m == add_registry(Manager, registry)
      IN  /\ registries_by_name' = m.by_name
          /\ registries_by_registry' = m.by_registry
          /\ outcome' = [ op |-> "add_registry", registry |-> registry,
                          raised |-> m.raised,
                          before |-> [ by_name |-> registries_by_name,
                                       by_registry |->
                                           registries_by_registry ] ]
          /\ UNCHANGED << tester_vars, call, poll, concurrent_vars >>

NextManager == AddRegistry

\* the sequences of calls of add_registry
SpecManager == Init /\ [][NextManager]_vars

(* ------------------- the entries of the routing table ------------------- *)

\* rows of /proc/net/route that parse_routing_table accepts: those of Rows,
\* a loopback host route, a loopback subnet, and networks of other sizes
ProbeRows ==
    Rows \cup
    { [ destination |-> Quad(127, 0, 0, 1), gateway |-> Quad(0, 0, 0, 0),
        mask |-> Quad(255, 255, 255, 255) ],
      [ destination |-> Quad(127, 0, 1, 0), gateway |-> Quad(0, 0, 0, 0),
        mask |-> Quad(255, 255, 255, 0) ],
      [ destination |-> Quad(172, 16, 0, 0), gateway |-> Quad(0, 0, 0, 0),
        mask |-> Quad(255, 240, 0, 0) ],
      [ destination |-> Quad(10, 0, 0, 0), gateway |-> Quad(0, 0, 0, 0),
        mask |-> Quad(255, 0, 0, 0) ],
      [ destination |-> Quad(192, 168, 1, 0), gateway |-> Quad(0, 0, 0, 0),
        mask |-> Quad(255, 255, 255, 0) ],
      [ destination |-> Quad(172, 17, 255, 252),
        gateway |-> Quad(0, 0, 0, 0),
        mask |-> Quad(255, 255, 255, 252) ] }

\* the calls of in_network: a row of the table and an address
NetworkCalls == [ row : ProbeRows, addr : DOMAIN AddressValue ]

InitNetwork ==
    /\ TesterInit
    /\ call \in NetworkCalls
    /\ outcome = NoOutcome
    /\ poll = NoPoll
    /\ removal = NoRemoval
    /\ observed = NoObservation
    /\ NoManager

\* dockertester.py 462, 470: in_network is called on an entry of the table
InNetwork ==
    /\ outcome.op = "none"
    /\ outcome' = [ op |-> "in_network",
                    entry |-> RoutingTableEntry(call.row),
                    result |-> in_network(RoutingTableEntry(call.row),
                                          call.addr) ]
    /\ UNCHANGED << tester_vars, call, aux_vars >>

NextNetwork == InNetwork

\* the calls of in_network with every row and every address
SpecNetwork == InitNetwork /\ [][NextNetwork]_vars

(* ------------------- the capture of the routing table ------------------- *)

\* a line of /proc/net/route after the header: a row, with all its columns
\* or too few of them, and with hexadecimal numbers or not
RawRow(row, columns, hex) == [ row |-> row, columns |-> columns, hex |-> hex ]

\* a destination that is not the first address of the network of its mask
HostBitsRow ==
    [ destination |-> Quad(172, 17, 0, 1), gateway |-> Quad(0, 0, 0, 0),
      mask |-> Quad(255, 255, 0, 0) ]

\* the lines the kernel writes and lines that cannot be parsed
RawRows ==
    { RawRow(row, "all", TRUE) : row \in Rows \cup { HostBitsRow } } \cup
    { RawRow(CHOOSE row \in Rows : row.destination = Quad(172, 17, 0, 0),
             columns, hex) :
        columns \in { "all", "few" }, hex \in BOOLEAN }

\* /proc/net/route: absent, unreadable, or a file of lines whose first
\* line, if any, is the header
RouteSources ==
    { [ file |-> file, header |-> FALSE, rows |-> << >> ] :
        file \in { "absent", "unreadable", "readable" } } \cup
    { [ file |-> "readable", header |-> TRUE, rows |-> rows ] :
        rows \in UNION { [ 1..k -> RawRows ] : k \in 0..MaxRoutes } }

\* ipaddress.IPv4Network(f"{destination}/{mask}") raises ValueError when
\* the destination has bits set outside the mask
HasHostBits(row) ==
    LET n == PrefixLen(row.mask)
    IN  IF n <= 16
        THEN row.destination.lo # 0 \/ row.destination.hi % 2 ^ (16 - n) # 0
        ELSE row.destination.lo % 2 ^ (32 - n) # 0

\* dockertester.py 97-121: one pass of the loop; the exception a line
\* raises, or the entry it adds
parse_row(raw) ==
    IF raw.columns = "few" THEN [ exc |-> "IndexError", entries |-> << >> ]
    ELSE IF ~raw.hex THEN [ exc |-> "ValueError", entries |-> << >> ]
    ELSE IF raw.row.destination # Quad(0, 0, 0, 0) /\ HasHostBits(raw.row)
    THEN [ exc |-> "ValueError", entries |-> << >> ]
    ELSE [ exc |-> None, entries |-> << RoutingTableEntry(raw.row) >> ]

\* dockertester.py 93-123: the body of the try statement: what it raises,
\* and the list of routes it has built by then
RECURSIVE read_routes(_, _)
read_routes(rows, route_list) ==
    IF rows = << >> THEN [ exc |-> None, entries |-> route_list ]
    ELSE LET r == parse_row(Head(rows))
         IN  IF r.exc # None
             THEN [ exc |-> r.exc, entries |-> route_list ]
             ELSE read_routes(Tail(rows), route_list \o r.entries)

\* dockertester.py 93-95: the file is opened and its first line is skipped
open_routes(source) ==
    IF source.file = "absent" THEN "FileNotFoundError"
    ELSE IF source.file = "unreadable" THEN "PermissionError"
    ELSE IF ~source.header THEN "StopIteration"
    ELSE None

\* the routes read before a line raised are returned
parse_routing_table_partial(source) ==
    IF open_routes(source) # None
    THEN [ available |-> FALSE, entries |-> << >> ]
    ELSE [ available |-> TRUE,
           entries |-> read_routes(source.rows, << >>).entries ]

\* dockertester.py 91-127: parse_routing_table: the except clause turns
\* every exception of the body into None
parse_routing_table(source) ==
    IF open_routes(source) # None
    THEN [ available |-> FALSE, entries |-> << >> ]
    ELSE LET r == read_routes(source.rows, << >>)
         IN  IF r.exc # None
             THEN [ available |-> FALSE, entries |-> << >> ]
             ELSE [ available |-> TRUE, entries |-> r.entries ]

\* the calls of get_connectable_host_and_port, with the file the routing
\* table is read from
SourceCalls ==
    [ source : RouteSources, marker : BOOLEAN, owned : BOOLEAN,
      attached : { TRUE }, default_ip : DefaultIps,
      custom_ip : { "172.18.0.2" }, answers : AnswerSeqs(1, 1),
      docker_host : { "localhost" }, internal_port : { 5432 } ]

\* the call, with the routing table the resolution gets
WithTable(c, table) ==
    [ marker |-> c.marker, owned |-> c.owned, attached |-> c.attached,
      default_ip |-> c.default_ip, custom_ip |-> c.custom_ip,
      routing_table |-> table, answers |-> c.answers,
      docker_host |-> c.docker_host, internal_port |-> c.internal_port ]

InitRoutes ==
    /\ TesterInit
    /\ call \in SourceCalls
    /\ outcome = NoOutcome
    /\ poll = NoPoll
    /\ removal = NoRemoval
    /\ observed = NoObservation
    /\ NoManager

\* dockertester.py 427-482: a test calls get_connectable_host_and_port,
\* which reads the routing table at line 454
ResolveFromSource ==
    /\ outcome.op = "none"
    /\ LET table == parse_routing_table(call.source)
           r == get_connectable_host_and_port(WithTable(call, table))
       IN  outcome' = [ op |-> "get_connectable_host_and_port",
                        kind |-> r.kind, host |-> r.host, port |-> r.port,
                        exc |-> r.exc, asked |-> r.asked,
                        routing_table |-> table ]
    /\ UNCHANGED << tester_vars, call, aux_vars >>

NextRoutes == ResolveFromSource

\* the resolutions with every file the routing table can be read from
SpecRoutes == InitRoutes /\ [][NextRoutes]_vars

(* ------------------- the environment of a container --------------------- *)

EnvKeys == { "CI", "TZ" }
EnvValues == { "true", "false" }

\* the dicts of environment variables
Environments ==
    UNION { [ keys -> EnvValues ] : keys \in SUBSET EnvKeys }

MarkedServices == { "mongodb", "rabbitmq" }

\* f"environment_{service}"
MarkerName(service) == << "environment", service >>

\* a pytest Mark: an object with the attributes name, args and kwargs; it
\* has no keys() and cannot be iterated
Mark(name, kwargs) ==
    [ type |-> "Mark", name |-> name, args |-> << >>, kwargs |-> kwargs ]

\* request.node.get_closest_marker(name): the mark of that name on the
\* test, or None
get_closest_marker(marks, name) ==
    { m \in marks : m.name = name }

\* dict.update(other): the items of a mapping are written over those of
\* the dict; an object without keys() is iterated, which an object that
\* is not iterable refuses with TypeError
dict_update(result, other) ==
    IF other.type = "dict"
    THEN [ raised |-> None,
           result |-> [ k \in DOMAIN result \cup DOMAIN other.items |->
                          IF k \in DOMAIN other.items THEN other.items[k]
                          ELSE result[k] ] ]
    ELSE [ raised |-> "TypeError", result |-> result ]

\* core_fixtures.py 90-102: get_environment_with_overrides
get_environment_with_overrides(marks, service, kwargs) ==
    LET result == kwargs
        marker == get_closest_marker(marks, MarkerName(service))
    IN  IF marker # {}
        THEN dict_update(result, CHOOSE m \in marker : TRUE)
        ELSE [ raised |-> None, result |-> result ]

\* the marks of a test: at most one environment mark for each service
MarkSets ==
    { marks \in SUBSET { Mark(MarkerName(s), e) :
                           s \in MarkedServices, e \in Environments } :
        \A m, n \in marks : m.name = n.name => m = n }

EnvironmentCalls ==
    [ marks : MarkSets, service : MarkedServices, kwargs : Environments ]

InitEnvironment ==
    /\ TesterInit
    /\ call \in EnvironmentCalls
    /\ outcome = NoOutcome
    /\ poll = NoPoll
    /\ removal = NoRemoval
    /\ observed = NoObservation
    /\ NoManager

\* a fixture calls get_environment_with_overrides(request, service, **kwargs)
GetEnvironmentWithOverrides ==
    /\ outcome.op = "none"
    /\ LET r == get_environment_with_overrides(call.marks, call.service,
                                               call.kwargs)
       IN  outcome' = [ op |-> "get_environment_with_overrides",
                        raised |-> r.raised, result |-> r.result,
                        kwargs |-> call.kwargs ]
    /\ UNCHANGED << tester_vars, call, aux_vars >>

NextEnvironment == GetEnvironmentWithOverrides

SpecEnvironment == InitEnvironment /\ [][NextEnvironment]_vars

(* ------------------------- TestContainerMixin --------------------------- *)

\* dockertester.py 616: the class has an annotation for _managed_container
\* and no value: the attribute is not there until
\* initialize_container_manager has set it
NoMixin == [ managed |-> None ]

\* the properties and the methods of TestContainerMixin
MixinMethods ==
    { "managed_container", "docker_tester", "container_id", "stop_container",
      "start_container", "inspect_container", "get_logs",
      "dump_logs_to_stdout" }

\* the attribute that is not set reads as None
managed_container_none(w, mixin) == [ w EXCEPT !.ret = mixin.managed ]

\* dockertester.py 622-627: the property managed_container: reading an
\* attribute that is not set raises AttributeError
managed_container(w, mixin) ==
    IF mixin.managed = None THEN Raise(w, "AttributeError")
    ELSE [ w EXCEPT !.ret = mixin.managed ]

\* dockertester.py 629-654: the properties and methods of the mixin go to
\* the ManagedContainer, a ManagedContainer being known by its container_id
mixin_call(w, mixin, alive, method, o) ==
    LET w1 == managed_container(w, mixin)
    IN  IF w1.raised # None \/ method \in { "managed_container",
                                            "container_id" }
        THEN w1
        ELSE IF method = "docker_tester"
        THEN IF docker_tester(alive) THEN [ w EXCEPT !.ret = "DockerTester" ]
             ELSE Raise(w, "GarbageCollected")
        ELSE handle_call(w, alive, method, w1.ret, o)

InitMixin ==
    /\ TesterInit
    /\ call = NoMixin
    /\ outcome = NoOutcome
    /\ poll = NoPoll
    /\ removal = NoRemoval
    /\ observed = NoObservation
    /\ NoManager

\* dockertester.py 618-620: initialize_container_manager with a
\* ManagedContainer that launch_container has returned
InitializeContainerManager ==
    /\ fixture_pc \in { "yielded", "ended", "collected" }
    /\ last.op = "none"
    /\ \E h \in handles : call' = [ managed |-> h ]
    /\ UNCHANGED << tester_vars, outcome, aux_vars >>

\* a property of the mixin is read or a method of it is called, between
\* two operations of the session or after its end
MixinCall ==
    /\ fixture_pc \in { "yielded", "ended", "collected" }
    /\ last.op = "none"
    /\ \E method \in MixinMethods :
         \E o \in OptionsOf(method) :
           /\ Apply("mixin", [ NoArgs EXCEPT !.method = method ],
                    mixin_call(World, call, fixture_pc # "collected", method,
                               o))
           /\ UNCHANGED fixture_pc

NextMixin ==
    \/ FixtureConstruct
    \/ FixtureLogin
    \/ FixtureTeardown
    \/ Return
    \/ LaunchLocal
    \/ Remove
    \/ Collect
    \/ InitializeContainerManager
    \/ MixinCall

\* a session of launches of a local-only image, with an object of
\* TestContainerMixin
SpecMixin == InitMixin /\ [][NextMixin]_vars

(* --------------------------- wait_for_change ---------------------------- *)

\* the longest timeout, in ticks of the clock
MaxTimeout == 3

\* what func returns
FuncValues == { "a", "b" }

\* the calls: wait_for_change(func, delay, timeout); a sleep takes one tick
\* at least
WaitCalls == [ delay : 1..2, timeout : 0..MaxTimeout ]

\* the context manager before it is entered
NoWait ==
    [ op |-> "wait_for_change", pc |-> "enter", val |-> None, now |-> 0,
      timeout_after |-> 0, polls |-> << >>, exc |-> None ]

InitWait ==
    /\ TesterInit
    /\ call \in WaitCalls
    /\ outcome = NoWait
    /\ poll = NoPoll
    /\ removal = NoRemoval
    /\ observed = NoObservation
    /\ NoManager

\* every poll counts as a change
changed_always(value, val) == TRUE

\* waiting.py 21: func() != val
changed(value, val) == value # val

\* waiting.py 15-16: func is called and its value is handed to the block;
\* or func raises
WaitEnter ==
    /\ outcome.pc = "enter"
    /\ \/ \E value \in FuncValues :
            outcome' = [ outcome EXCEPT !.pc = "body", !.val = value ]
       \/ outcome' = [ outcome EXCEPT !.pc = "raised", !.exc = "FuncError" ]
    /\ UNCHANGED << tester_vars, call, aux_vars >>

\* the block of the with statement runs, for some time: it ends and the
\* generator goes on at line 18, or it raises and the exception goes
\* through the generator at line 16
WaitBody ==
    /\ outcome.pc = "body"
    /\ \E dt \in 0..1 :
         \/ outcome' = [ outcome EXCEPT
                           !.pc = "test", !.now = @ + dt,
                           !.timeout_after = outcome.now + dt + call.timeout ]
         \/ outcome' = [ outcome EXCEPT !.pc = "raised", !.now = @ + dt,
                                        !.exc = "BodyError" ]
    /\ UNCHANGED << tester_vars, call, aux_vars >>

\* waiting.py 19 and 24: the test of the loop, and the raise after it
WaitTest ==
    /\ outcome.pc = "test"
    /\ outcome' = IF outcome.now < outcome.timeout_after
                  THEN [ outcome EXCEPT !.pc = "sleep" ]
                  ELSE [ outcome EXCEPT
                           !.pc = "raised",
                           !.exc = "WaitForChangeTimeoutException" ]
    /\ UNCHANGED << tester_vars, call, aux_vars >>

\* waiting.py 20: time.sleep(delay), which may take longer than delay
WaitSleep ==
    /\ outcome.pc = "sleep"
    /\ \E late \in 0..1 :
         outcome' = [ outcome EXCEPT !.pc = "poll",
                                     !.now = @ + call.delay + late ]
    /\ UNCHANGED << tester_vars, call, aux_vars >>

\* waiting.py 21-22: func is called again: the generator returns when the
\* value differs; or func raises
WaitPoll ==
    /\ outcome.pc = "poll"
    /\ \/ \E value \in FuncValues :
            outcome' = [ outcome EXCEPT
                           !.polls = Append(@, value),
                           !.pc = IF changed(value, outcome.val)
                                  THEN "returned" ELSE "test" ]
       \/ outcome' = [ outcome EXCEPT !.pc = "raised", !.exc = "FuncError" ]
    /\ UNCHANGED << tester_vars, call, aux_vars >>

NextWait ==
    \/ WaitEnter
    \/ WaitBody
    \/ WaitTest
    \/ WaitSleep
    \/ WaitPoll

\* the with statement runs on as long as func and the block return
SpecWait == InitWait /\ [][NextWait]_vars /\ WF_vars(NextWait)

(* -------------------------- the service fixtures ------------------------ *)

\* the fixtures that launch a container for one test
ServiceFixtures ==
    { "mongodb", "postgres", "mssql_2019", "rabbitmq", "victoria_metrics" }

\* the service name each fixture passes to launch_container
ServiceNameOf(fixture) ==
    CASE fixture = "mongodb" -> "mongodb"
      [] fixture = "postgres" -> "postgres"
      [] fixture = "mssql_2019" -> "sql-server-2019"
      [] fixture = "rabbitmq" -> "rabbitmq"
      [] fixture = "victoria_metrics" -> "victoriametrics"

\* the engine faults of the launch of a fixture
ServiceLaunchFaults == { "none", "create", "start" }

\* what the engine does when the fixture asks for the address of its
\* container
ResolveOptions ==
    { o \in Options : o.only_once /\ ~o.marker /\ o.route = "unavailable" }

\* the fixture before its test, and the record of what the fixture of a
\* test has gone through
NoFixture ==
    [ fixture |-> None, pc |-> "idle", container |-> None,
      launched |-> FALSE, resolved |-> FALSE, ready |-> FALSE, exc |-> None,
      body_raised |-> FALSE, dump_failed |-> FALSE, remove_fault |-> FALSE ]

\* databases.py 32-37, 102-107, 224-229, rabbitmq.py 91-96,
\* telemetry.py 64-73: the launch of the fixture; victoria_metrics passes
\* image_tag and force_pull, which launch_container does not take
service_launch(w, fixture, fault) ==
    IF fixture = "victoria_metrics" THEN Raise(w, "TypeError")
    ELSE launch_container(w, DockerImage("mongo", None, FALSE),
                          ServiceNameOf(fixture), "list", FALSE, fault)

\* databases.py 39-40, 109-112, 175-177, rabbitmq.py 104-118,
\* container_waiters.py 22-24: the fixture asks for the address of its
\* container; the loop of rabbitmq takes the exception and asks again
\* until its timeout
service_resolve(w, fixture, container_id, o) ==
    CASE fixture \in { "mongodb", "postgres", "victoria_metrics" } ->
           base_url_for_container(w, container_id, o.marker, o.route, o.fault)
      [] fixture = "mssql_2019" ->
           connectable_of(w, container_id, o.marker, o.route, o.fault)
      [] fixture = "rabbitmq" ->
           IF o.fault
           THEN Raise(Failed(Call(w, "inspect", container_id)),
                      "DockerStartTimeoutException")
           ELSE connectable_of(w, container_id, o.marker, o.route, FALSE)

\* databases.py 39-40, 109-112: mongodb and postgres ask for the address
\* before their try statement
in_try(fixture) == fixture \notin { "mongodb", "postgres" }

\* databases.py 42-65, 118-143, 186-212, rabbitmq.py 100-143,
\* container_waiters.py 26-45: the loop of the fixture that waits for the
\* service
wait_for_service(w, ready) ==
    IF ready THEN w ELSE Raise(w, "DockerStartTimeoutException")

\* the exception that goes on after the statements of an except or a
\* finally clause: the one they raise, or else the one that was on its way
Afterwards(w, exc) ==
    IF w.raised # None THEN w ELSE [ w EXCEPT !.raised = exc ]

\* rabbitmq.py 149-152: the except clause of the rabbitmq fixture dumps
\* the logs and raises again
service_except(w, fixture, container_id, fault) ==
    IF fixture = "rabbitmq" /\ w.raised # None
    THEN Afterwards(dump_logs_to_stdout([ w EXCEPT !.raised = None ],
                                        container_id, TRUE, fault),
                    w.raised)
    ELSE w

\* databases.py 67-69, 145-147, 236-238, rabbitmq.py 154-156,
\* telemetry.py 80-82: the finally clause of a fixture: the logs are
\* dumped, then the container is removed
service_finally(w, container_id, dump_fault, remove_fault) ==
    LET w1 == dump_logs_to_stdout([ w EXCEPT !.raised = None ], container_id,
                                  TRUE, dump_fault)
        w2 == IF w1.raised # None THEN w1
              ELSE remove(w1, container_id,
                          IF remove_fault THEN { container_id } ELSE {})
    IN  Afterwards(w2, w.raised)

\* the fixture ends with an exception that was raised inside its try
\* statement
service_fail(w, fixture, container_id, exc, dump_fault, remove_fault) ==
    service_finally(
        service_except(Raise(w, exc), fixture, container_id, dump_fault),
        container_id, dump_fault, remove_fault)

\* the fixture from its yield to its end: an exception of the test is
\* thrown into the fixture at the yield
service_finish(w, fixture, id, body_raised, dump_fault, remove_fault) ==
    LET w1 == IF body_raised THEN Raise(w, "TestError") ELSE w
    IN  service_finally(service_except(w1, fixture, id, dump_fault),
                        id, dump_fault, remove_fault)

InitFixtures ==
    /\ TesterInit
    /\ call = NoFixture
    /\ outcome = NoOutcome
    /\ poll = NoPoll
    /\ removal = NoRemoval
    /\ observed = NoObservation
    /\ NoManager

\* a test that uses a service fixture starts: the fixture launches its
\* container
ServiceLaunch ==
    /\ Idle
    /\ next_id <= MaxContainers
    /\ call.pc \in { "idle", "finished" }
    /\ \E fixture \in ServiceFixtures, fault \in ServiceLaunchFaults :
         LET w == service_launch(World, fixture, fault)
         IN  /\ fault_applies(World, DockerImage("mongo", None, FALSE),
                              ServiceNameOf(fixture), "list", FALSE, fault)
             /\ Effect("service_launch",
                       [ NoArgs EXCEPT !.service_name = ServiceNameOf(fixture),
                                       !.fault = fault ], w)
             /\ call' = [ NoFixture EXCEPT
                            !.fixture = fixture,
                            !.pc = IF w.raised = None THEN "launched"
                                   ELSE "finished",
                            !.container = w.ret,
                            !.launched = w.raised = None ]
             /\ UNCHANGED << fixture_pc, outcome, aux_vars >>

\* the fixture goes on after the launch: it asks for the address of the
\* container
ServiceResolve ==
    /\ call.pc = "launched"
    /\ \E o \in ResolveOptions :
         LET w == service_resolve(World, call.fixture, call.container, o)
         IN  /\ Effect("service_resolve",
                       [ NoArgs EXCEPT !.id = call.container ], w)
             /\ call' = [ call EXCEPT
                            !.pc = IF w.raised = None THEN "resolved"
                                   ELSE IF in_try(call.fixture) THEN "raising"
                                   ELSE "finished",
                            !.resolved = w.raised = None,
                            !.exc = w.raised ]
             /\ UNCHANGED << fixture_pc, outcome, aux_vars >>

\* the fixture waits for the service, and yields when it is ready
ServiceWait ==
    /\ call.pc = "resolved"
    /\ \E ready \in BOOLEAN :
         LET w == wait_for_service(World, ready)
         IN  /\ Effect("service_wait",
                       [ NoArgs EXCEPT !.id = call.container ], w)
             /\ call' = [ call EXCEPT
                            !.pc = IF ready THEN "yielded" ELSE "raising",
                            !.ready = ready,
                            !.exc = w.raised ]
             /\ UNCHANGED << fixture_pc, outcome, aux_vars >>

\* the exception raised inside the try statement goes through the except
\* and finally clauses of the fixture
ServiceFail ==
    /\ call.pc = "raising"
    /\ \E dump_fault \in BOOLEAN, remove_fault \in BOOLEAN :
         /\ Effect("service_fail",
                   [ NoArgs EXCEPT !.id = call.container ],
                   service_fail(World, call.fixture, call.container,
                                call.exc, dump_fault, remove_fault))
         /\ call' = [ call EXCEPT !.pc = "finished",
                                  !.dump_failed = dump_fault,
                                  !.remove_fault = remove_fault ]
         /\ UNCHANGED << fixture_pc, outcome, aux_vars >>

\* the test is over: the fixture goes on after its yield
ServiceFinish ==
    /\ Idle
    /\ call.pc = "yielded"
    /\ \E body_raised \in BOOLEAN, dump_fault \in BOOLEAN,
          remove_fault \in BOOLEAN :
         /\ Effect("service_finish",
                   [ NoArgs EXCEPT !.id = call.container ],
                   service_finish(World, call.fixture, call.container,
                                  body_raised, dump_fault, remove_fault))
         /\ call' = [ call EXCEPT !.pc = "finished",
                                  !.body_raised = body_raised,
                                  !.dump_failed = dump_fault,
                                  !.remove_fault = remove_fault ]
         /\ UNCHANGED << fixture_pc, outcome, aux_vars >>

NextFixtures ==
    \/ FixtureConstruct
    \/ FixtureLogin
    \/ Return
    \/ ServiceLaunch
    \/ ServiceResolve
    \/ ServiceWait
    \/ ServiceFail
    \/ ServiceFinish

\* a session of tests that use the service fixtures, one after another
SpecFixtures == InitFixtures /\ [][NextFixtures]_vars

(* ------------------- docker registries of the environment --------------- *)

\* images.py 121-127: the __init__ of the dataclass binds its positional
\* arguments to the fields in the order of their declaration; the fields
\* that get no argument have their default, None
dataclass_init(args) ==
    LET field(k) == IF k <= Len(args) THEN args[k] ELSE Nothing
    IN  [ name |-> field(1), registry |-> field(2), default_tag |-> field(3),
          username |-> field(4), password |-> field(5) ]

\* no DockerRegistry
NoEntry ==
    [ name |-> Nothing, registry |-> Nothing, default_tag |-> Nothing,
      username |-> Nothing, password |-> Nothing ]

\* images.py 144-158: DockerRegistry.from_env; os.getenv gives None for a
\* variable that is not set
from_env(name, env) ==
    LET registry == env.DOCKERREGISTRY
        username == env.DOCKERLOGINUSER
        password == IF username # Nothing THEN env.DOCKERLOGINPASS
                    ELSE Nothing
    IN  IF registry = Nothing
        THEN [ raised |-> None, returned |-> FALSE, entry |-> NoEntry ]
        ELSE IF username # Nothing /\ password = Nothing
        THEN [ raised |-> "ValueError", returned |-> FALSE, entry |-> NoEntry ]
        ELSE [ raised |-> None, returned |-> TRUE,
               entry |-> dataclass_init(<< Some(name), registry, username,
                                           password >>) ]

\* the environment of the process: each variable is set, to the empty
\* string too, or not set
Environs ==
    [ DOCKERREGISTRY : { Nothing, Some(""), Some("registry.example"),
                         Some("localhost:5000") },
      DOCKERLOGINUSER : { Nothing, Some(""), Some("ci") },
      DOCKERLOGINPASS : { Nothing, Some(""), Some("secret") } ]

FromEnvCalls == [ name : { "public", "build", "mirror" }, env : Environs ]

InitFromEnv ==
    /\ TesterInit
    /\ call \in FromEnvCalls
    /\ outcome = NoOutcome
    /\ poll = NoPoll
    /\ removal = NoRemoval
    /\ observed = NoObservation
    /\ NoManager

\* DockerRegistry.from_env(name) is called
FromEnv ==
    /\ outcome.op = "none"
    /\ LET r == from_env(call.name, call.env)
       IN  outcome' = [ op |-> "from_env", raised |-> r.raised,
                        returned |-> r.returned, entry |-> r.entry ]
    /\ UNCHANGED << tester_vars, call, aux_vars >>

NextFromEnv == FromEnv

SpecFromEnv == InitFromEnv /\ [][NextFromEnv]_vars

(* ------------------------- RabbitMqBroadcaster -------------------------- *)

\* the most rounds of the loop of reconnect that fit in its timeout
MaxAttempts == 2

\* rabbitmq.py 22-30: the object after __init__; declared tells whether
\* the exchange has been declared on the channel the object holds
Broadcaster(exchange_name, exchange_type) ==
    [ exchange_name |-> exchange_name, exchange_type |-> exchange_type,
      connection |-> None, amqp_channel |-> None, declared |-> FALSE,
      raised |-> None ]

\* the call of the broker that raises during an operation, if any
BrokerFaults ==
    { "none", "close", "connect", "channel", "exchange_declare", "publish" }

\* rabbitmq.py 56-63: _close_connection: the connection is closed, and
\* both attributes are cleared whether the close raised or not
close_connection(b, fault) ==
    [ b EXCEPT !.connection = None, !.amqp_channel = None,
               !.declared = FALSE,
               !.raised = IF b.connection # None /\ fault = "close"
                          THEN "AMQPError" ELSE None ]

\* rabbitmq.py 32-47: _ensure_channel: with a channel it does nothing;
\* without one it closes the connection, makes a new one, connects it,
\* stores its channel and declares the exchange on it
ensure_channel(b, fault) ==
    IF b.amqp_channel # None THEN [ b EXCEPT !.raised = None ]
    ELSE LET b1 == close_connection(b, fault)
         IN  IF b1.raised # None THEN b1
             ELSE IF fault = "connect"
             THEN [ b1 EXCEPT !.connection = "unconnected",
                              !.raised = "AMQPError" ]
             ELSE IF fault = "channel"
             THEN [ b1 EXCEPT !.connection = "connected",
                              !.raised = "AMQPError" ]
             ELSE IF fault = "exchange_declare"
             THEN [ b1 EXCEPT !.connection = "connected",
                              !.amqp_channel = "channel",
                              !.raised = "AMQPError" ]
             ELSE [ b1 EXCEPT !.connection = "connected",
                              !.amqp_channel = "channel",
                              !.declared = TRUE ]

\* rabbitmq.py 49-54: basic_publish
basic_publish(b, fault) ==
    LET b1 == ensure_channel(b, fault)
    IN  IF b1.raised # None THEN b1
        ELSE IF fault = "publish" THEN [ b1 EXCEPT !.raised = "AMQPError" ]
        ELSE b1

\* rabbitmq.py 73-82: the loop of reconnect, one fault for each round that
\* fits in the timeout; after the last round the function is at its end
RECURSIVE reconnect_loop(_, _)
reconnect_loop(b, faults) ==
    IF faults = << >> THEN [ b EXCEPT !.raised = None ]
    ELSE LET b1 == ensure_channel(b, Head(faults))
         IN  IF b1.raised = None THEN b1
             ELSE reconnect_loop(b1, Tail(faults))

\* rabbitmq.py 65-82: reconnect: an exception of the close is logged
reconnect(b, close_fault, faults) ==
    reconnect_loop(close_connection(b, close_fault), faults)

\* the faults of the rounds of one reconnect
AttemptFaults ==
    UNION { [ 1..n -> BrokerFaults \ { "publish" } ] : n \in 0..MaxAttempts }

InitBroadcaster ==
    /\ TesterInit
    /\ call \in { Broadcaster(exchange_name, exchange_type) :
                    exchange_name \in { "default", "events" },
                    exchange_type \in { "topic", "fanout" } }
    /\ outcome = NoOutcome
    /\ poll = NoPoll
    /\ removal = NoRemoval
    /\ observed = NoObservation
    /\ NoManager

\* the attributes of the object after an operation
Attributes(b) == [ b EXCEPT !.raised = None ]

\* what the operation was and how it ended
Ended_(op, b, attempts) ==
    [ op |-> op, raised |-> b.raised, attempts |-> attempts ]

\* rabbitmq.py 32-47: _ensure_channel is called
EnsureChannel ==
    \E fault \in BrokerFaults \ { "publish" } :
        /\ call' = Attributes(ensure_channel(call, fault))
        /\ outcome' = Ended_("_ensure_channel", ensure_channel(call, fault), 0)
        /\ UNCHANGED << tester_vars, aux_vars >>

\* rabbitmq.py 49-54: basic_publish is called
BasicPublish ==
    \E fault \in BrokerFaults :
        /\ call' = Attributes(basic_publish(call, fault))
        /\ outcome' = Ended_("basic_publish", basic_publish(call, fault), 0)
        /\ UNCHANGED << tester_vars, aux_vars >>

\* rabbitmq.py 56-63: _close_connection is called
CloseConnection ==
    \E fault \in { "none", "close" } :
        /\ call' = Attributes(close_connection(call, fault))
        /\ outcome' = Ended_("_close_connection",
                             close_connection(call, fault), 0)
        /\ UNCHANGED << tester_vars, aux_vars >>

\* rabbitmq.py 65-82: reconnect is called, with a timeout in which so many
\* rounds of its loop fit
Reconnect ==
    \E close_fault \in { "none", "close" }, faults \in AttemptFaults :
        /\ call' = Attributes(reconnect(call, close_fault, faults))
        /\ outcome' = Ended_("reconnect",
                             reconnect(call, close_fault, faults),
                             Len(faults))
        /\ UNCHANGED << tester_vars, aux_vars >>

NextBroadcaster ==
    \/ EnsureChannel
    \/ BasicPublish
    \/ CloseConnection
    \/ Reconnect

\* the calls of one RabbitMqBroadcaster, with a broker that may refuse
SpecBroadcaster == InitBroadcaster /\ [][NextBroadcaster]_vars

(* ------------------------------ claims ---------------------------------- *)

\* the engine calls of the last operation that have this name
CallsOf(name) ==
    { k \in 1..Len(last.calls) : last.calls[k][1] = name }

\* the last operation called the engine to remove this container
Attempted(id) ==
    \E k \in CallsOf("remove") : last.calls[k][2] = id

\* C1: after remove_all() has returned, the owned-container map is empty
\* and the isolated network has been removed, also when the engine removal
\* of one owned container raised during that remove_all.
C1_RemoveAllEmptiesRegistry ==
    (last.op = "remove_all" /\ last.raised = None)
        => (DOMAIN owned_containers = {} /\ network = "removed")

\* C2: remove_all() calls the engine to remove every container that was
\* owned when it started, makes the removal of the network its last engine
\* call, after all those attempts, and raises only when that last call
\* raised: an exception of the removal of one container is not raised and
\* stops neither the other attempts nor the removal of the network.
C2_RemoveAllAttemptsEverything ==
    last.op = "remove_all" =>
        LET n == Len(last.calls)
        IN  /\ n = Cardinality(last.owned_before) + 1
            /\ last.calls[n][1] = "network.remove"
            /\ \A id \in last.owned_before : Attempted(id)
            /\ \A k \in 1..(n - 1) : last.calls[k][1] = "remove"
            /\ (last.raised # None) <=> (last.calls[n][3] = "raised")

\* a remove_all in which the removal of a container raised, a container
\* after it was removed, and the network was removed
C2_Witness ==
    /\ last.op = "remove_all"
    /\ last.raised = None
    /\ network = "removed"
    /\ \E j, k \in CallsOf("remove") :
         /\ j < k
         /\ last.calls[j][3] = "raised"
         /\ last.calls[k][3] = "ok"

\* C3: after every launch, remove, remove_all, stop_container and
\* start_container, whether it returned or raised, service_names and
\* owned_containers have the same keys.
C3_SameKeys == DOMAIN services = DOMAIN owned_containers

\* a launch has raised after the creation of its container, beside another
\* owned container, and later a remove has raised
C3_Witness ==
    /\ last.op = "remove"
    /\ last.raised = "EngineError"
    /\ Cardinality(DOMAIN owned_containers) >= 2
    /\ \E id \in DOMAIN owned_containers : containers[id] = "created"

\* C4: once the fixture has constructed the DockerTester, and so created
\* the isolated network, the fixture does not end without having executed
\* remove_all(), whatever failed after the construction.
C4_TeardownAlwaysRuns ==
    (fixture_pc \in { "ended", "error" } /\ network # "none")
        => fixture_pc = "ended"

\* C5: when a launch raises after the engine has created its container,
\* the id of that container is a key of owned_containers and of
\* service_names, and a remove_all() called next calls the engine to remove
\* it, whatever the engine faults of that remove_all.
C5_FailedLaunchStaysRegistered ==
    (last.op = "launch" /\ last.raised # None /\ last.created # None) =>
        /\ last.created \in DOMAIN owned_containers
        /\ last.created \in DOMAIN services
        /\ \A faults \in SUBSET (DOMAIN owned_containers),
              net_fault \in BOOLEAN :
             LET w == remove_all(World, faults, net_fault)
             IN  \E k \in 1..Len(w.calls) :
                   /\ w.calls[k][1] = "remove"
                   /\ w.calls[k][2] = last.created

\* a launch has raised in the attachment to the network, after the upload
\* of its mounts: its container is created and not started
C5_Witness ==
    /\ last.op = "launch"
    /\ last.raised = "EngineError"
    /\ last.created # None
    /\ last.arg.fault = "connect"
    /\ CallsOf("put_archive") # {}
    /\ containers[last.created] = "created"

\* what the resolution asked the engine and the host for
Asked == { outcome.asked[k] : k \in 1..Len(outcome.asked) }

\* a call of get_connectable_host_and_port for an owned container
Connectable ==
    outcome.op = "get_connectable_host_and_port" /\ call.owned

\* the address is a valid address, not a loopback address, and inside the
\* network of an entry of the table whose destination is no loopback
\* address
Routable(addr) ==
    /\ addr \in DOMAIN AddressValue
    /\ ~is_loopback(AddressValue[addr])
    /\ \E k \in 1..Len(call.routing_table.entries) :
         LET entry == call.routing_table.entries[k]
         IN  /\ ~is_loopback(entry.destination)
             /\ \E net \in entry.network :
                  Prefix(AddressValue[addr], net.prefixlen)
                      = Prefix(net.network_address, net.prefixlen)

\* the outcome is this host and this port
Returned(host, port) ==
    outcome.kind = "return" /\ outcome.host = host /\ outcome.port = Some(port)

\* the outcome is the outcome of the resolution of the published binding
AsBinding ==
    LET r == get_port_bindings(call, << >>)
    IN  /\ outcome.kind = r.kind
        /\ outcome.host = r.host
        /\ outcome.port = r.port
        /\ outcome.exc = r.exc

\* the container has the addresses the resolution looks at: one on the
\* default bridge and, when that one is not routable, one on the isolated
\* network
HasAddresses ==
    /\ call.default_ip \in DOMAIN AddressValue
    /\ Routable(call.default_ip)
         \/ (call.attached /\ call.custom_ip \in DOMAIN AddressValue)

C7_OptimisticFallback ==
    (Connectable /\ ~call.marker /\ ~call.routing_table.available) =>
        /\ Returned(call.default_ip, call.internal_port)
        /\ "Networks" \notin Asked
        /\ "Ports" \notin Asked

\* no routing table: the default-bridge address is returned for a
\* container that is not attached to the isolated network
C7_Witness ==
    /\ Connectable
    /\ ~call.marker
    /\ ~call.routing_table.available
    /\ ~call.attached
    /\ Returned("172.17.0.2", 5432)

\* C8: with the marker file, the outcome of the resolution is the outcome
\* of the published binding, whatever the table and the addresses: it asks
\* for no address and for no table, and returns no internal address.
C8_MarkerForcesBinding ==
    (outcome.op = "get_connectable_host_and_port" /\ call.marker) =>
        /\ AsBinding
        /\ Asked \subseteq { "Ports" }
        /\ outcome.kind = "return" =>
             outcome.host \notin { call.default_ip, call.custom_ip }

\* with the marker file the host label of the daemon is returned, though
\* the table routes to the default-bridge address
C8_Witness ==
    /\ Connectable
    /\ call.marker
    /\ Routable(call.default_ip)
    /\ Returned("remote-ci", 32768)

\* the list get_bound_ports returns: the list of the last answer, when
\* that answer has a list with a binding and comes in time
BoundList ==
    LET a == call.answers[Len(call.answers)]
    IN  IF a.ports.present /\ ~a.late THEN a.ports.list ELSE << >>

\* a call of get_port_bindings for an owned container that gets a list
Bound ==
    outcome.op = "get_port_bindings" /\ call.owned /\ BoundList # << >>

Unspecified == { "", "0.0.0.0" }

\* C9: the resolution of the binding of an owned container, for the first
\* binding of the list: a HostIp that is empty or 0.0.0.0 gives the host
\* label of the daemon and the HostPort as a number; the HostIp localhost
\* with a host label that is not localhost raises; any other HostIp is
\* returned as it is, with the HostPort as a number.
C9_BindingResolution ==
    Bound =>
        LET b == BoundList[1]
        IN  IF b.HostIp \in Unspecified
            THEN Returned(call.docker_host, IntValue[b.HostPort])
            ELSE IF b.HostIp = "localhost" /\ call.docker_host # "localhost"
            THEN outcome.kind = "raise" /\ outcome.exc = "Exception"
            ELSE Returned(b.HostIp, IntValue[b.HostPort])

\* a binding to localhost of a daemon that is not on localhost raises
C9_Witness ==
    /\ Bound
    /\ BoundList[1].HostIp = "localhost"
    /\ call.docker_host = "remote-ci"
    /\ outcome.kind = "raise"
    /\ outcome.exc = "Exception"

\* the outcome is the one of the binding b alone
OutcomeOf(b) ==
    LET r == binding_host(b, call.docker_host, << >>)
    IN  /\ outcome.kind = r.kind
        /\ outcome.host = r.host
        /\ outcome.port = r.port
        /\ outcome.exc = r.exc

\* C10, as claimed: when the list has a binding whose HostIp is neither
\* empty nor 0.0.0.0, the outcome is the one of such a binding, wherever in
\* the list it is.
C10_PrefersAdvertisedHost ==
    (Bound /\ \E k \in 1..Len(BoundList) :
                BoundList[k].HostIp \notin Unspecified) =>
        \E k \in 1..Len(BoundList) :
            /\ BoundList[k].HostIp \notin Unspecified
            /\ OutcomeOf(BoundList[k])

\* C10, amended: when the engine reports several bindings, the outcome is
\* the one of the first binding of the list, whatever the others are: the
\* host is the host label of the daemon when the HostIp of the first
\* binding is empty or 0.0.0.0, and the port is its HostPort.
C10_FirstBindingWins ==
    (Bound /\ Len(BoundList) >= 2) =>
        /\ OutcomeOf(BoundList[1])
        /\ BoundList[1].HostIp \in Unspecified =>
             Returned(call.docker_host, IntValue[BoundList[1].HostPort])

\* the first binding is to 0.0.0.0 and the second to an address of the
\* host, on another port: the host label and the first port are returned
C10_Witness ==
    /\ Bound
    /\ Len(BoundList) = 2
    /\ BoundList[1] = [ HostIp |-> "0.0.0.0", HostPort |-> "32768" ]
    /\ BoundList[2] = [ HostIp |-> "192.168.1.5", HostPort |-> "49153" ]
    /\ Returned("remote-ci", 32768)

\* get_bound_ports has returned or raised
PollDone == poll.pc \in { "returned_list", "returned_none", "raised_timeout" }

\* the outcomes of get_bound_ports and the answers they follow
PollOutcomes ==
    /\ poll.pc \in { "idle", "loop", "returned_list", "returned_none",
                     "raised_timeout" }
    /\ poll.pc = "returned_list" =>
          /\ Len(poll.bound_ports) > 0
          /\ poll.answer = Listed(poll.bound_ports)
    /\ (PollDone /\ ~poll.answer.present) <=> poll.pc = "returned_none"
    /\ poll.pc = "raised_timeout" => poll.elapsed >= Deadline
    /\ (PollDone /\ poll.answer = Listed(<< >>)) =>
          (poll.pc = "raised_timeout" /\ poll.elapsed >= Deadline)
    /\ (poll.pc = "loop" /\ poll.inspects > 0) =>
          (poll.answer = Listed(<< >>) /\ poll.elapsed < Deadline)

\* C11: every call of get_bound_ports ends, and it ends in one of three
\* ways: it returns the non-empty list of the last inspect; it returns None
\* at the inspect that lacks the key of the port, the first one and before
\* the deadline included; or it raises the timeout, and that only once the
\* deadline is reached. While the engine reports an empty list before the
\* deadline the call inspects again: an empty list is never returned, and
\* an empty list that is reported until the deadline ends in the timeout.
C11_BoundPortsOutcomes ==
    /\ []PollOutcomes
    /\ (poll.pc = "loop") ~> PollDone

\* a list is returned after the engine has reported an empty list, and
\* after the clock has gone on
C11_Witness ==
    /\ poll.pc = "returned_list"
    /\ poll.transient
    /\ poll.elapsed > 0
    /\ poll.elapsed < Deadline

\* the image the last launch has used
LaunchedImage == qualify_image(last.arg.image)

\* C12 as claimed: over the launches of one DockerTester the engine is
\* asked at most once to pull an image, also when an earlier launch has
\* failed in the pull of it, and never to pull a local-only image.
C12_PullAttemptedOnce ==
    (last.op = "launch" /\ CallsOf("pull") # {}) =>
        /\ LaunchedImage \notin last.before.attempted
        /\ ~LaunchedImage.use_local

\* C12: a launch asks the engine for at most one pull, of its own image,
\* and for none when the image is local-only or is in _updated_images; an
\* image enters that set when its pull has returned and never leaves it.
\* So at most one pull of an image succeeds and none is asked for after
\* it, while the pull that raised is asked for again by the next launch.
C12_PullSucceedsOnce ==
    /\ last.before.updated \subseteq updated_images
    /\ last.op = "launch" =>
          /\ Cardinality(CallsOf("pull")) <= 1
          /\ \A k \in CallsOf("pull") :
                /\ last.calls[k][2] = full_name(LaunchedImage)
                /\ LaunchedImage \notin last.before.updated
                /\ ~LaunchedImage.use_local
                /\ LaunchedImage \in pull_attempted
                /\ last.calls[k][3] = "ok" <=> LaunchedImage \in updated_images
          /\ (CallsOf("pull") = {} /\ last.ret # None) =>
                (LaunchedImage.use_local \/ LaunchedImage \in last.before.updated)
    /\ \A image \in updated_images \cup pull_attempted : ~image.use_local

\* a launch has pulled, with success, the image whose pull has raised in
\* an earlier launch, while another image is pulled already
C12_Witness ==
    /\ last.op = "launch"
    /\ \E k \in CallsOf("pull") : last.calls[k][3] = "ok"
    /\ LaunchedImage \in last.before.attempted
    /\ last.before.updated # {}

\* C13: a launch whose ports argument is neither a dict nor a list raises
\* the ValueError before it has called the engine: it has listed and
\* removed no container, pulled no image and created no container.
C13_InvalidPortsBeforeEngine ==
    (last.op = "launch" /\ last.arg.ports = "other") =>
        /\ last.raised = "ValueError"
        /\ last.calls = << >>
        /\ last.created = None

\* C14: a remove(id) that returns leaves id in neither map; a remove(id)
\* for an id that is not owned, the id of a container removed before
\* included, raises the AssertionError of _assert_container, calls the
\* engine for nothing and leaves both maps as they are.
C14_RemoveOwnedOnly ==
    last.op = "remove" =>
        LET id == last.arg.id
        IN  IF id \in last.owned_before
            THEN last.raised = None =>
                   /\ id \notin DOMAIN owned_containers
                   /\ id \notin DOMAIN services
                   /\ containers[id] = "absent"
            ELSE /\ last.raised = "AssertionError"
                 /\ last.calls = << >>
                 /\ DOMAIN owned_containers = last.owned_before
                 /\ services = last.before.services

\* the second remove of a container, beside a container that is owned
C14_Witness ==
    /\ last.op = "remove"
    /\ last.raised = "AssertionError"
    /\ names[last.arg.id] # None
    /\ containers[last.arg.id] = "absent"
    /\ DOMAIN owned_containers # {}

\* the DockerTester has been constructed and no test has called it yet
Fresh == fixture_pc = "constructed"

\* C15: a DockerTester that has just been constructed has two empty maps;
\* a launch that returns has entered one id that was in neither map in
\* both of them, in _services with the service name it was called with,
\* and has changed no other entry; the ManagedContainer it returns has
\* that id, which is the id of the container the launch created.
C15_LaunchRegistersOne ==
    /\ Fresh => (owned_containers = EmptyMap /\ services = EmptyMap)
    /\ (last.op = "launch" /\ last.ret # None) =>
          LET id == last.ret
          IN  /\ id = last.created
              /\ id \notin last.owned_before
              /\ id \notin DOMAIN last.before.services
              /\ DOMAIN owned_containers = last.owned_before \cup { id }
              /\ \A i \in DOMAIN owned_containers : owned_containers[i] = i
              /\ services = Put(last.before.services, id, last.arg.service_name)

\* a launch has returned in a DockerTester that owned a container of
\* another service before
C15_Witness ==
    /\ last.op = "launch"
    /\ last.ret # None
    /\ last.owned_before # {}
    /\ \E id \in last.owned_before :
         /\ id \in DOMAIN services
         /\ services[id] # last.arg.service_name

\* the session fixture has executed remove_all() at the end of the session
TornDown == fixture_pc \in { "ended", "collected" }

\* C16: after the teardown of the session every call of a method of a
\* ManagedContainer raises the error that tells that its DockerTester is
\* gone, calls the engine for nothing and returns nothing.
C16_HandlesFailAfterTeardown ==
    (TornDown /\ last.op = "handle") =>
        /\ last.raised = "GarbageCollected"
        /\ last.calls = << >>
        /\ last.ret = None

\* the call has passed an id or a name that the registry did not have
UnknownDesignation ==
    /\ last.arg.id \notin DOMAIN last.before.services
    /\ \A i \in DOMAIN last.before.services :
         last.before.services[i] # last.arg.id

\* C17: every method of DockerTester that asks for a container, and so
\* every method of a ManagedContainer whose entry is removed, raises the
\* error of the registry (the AssertionError of _assert_container or the
\* Exception of get_service_name) for an id or name that is not
\* registered: it calls the engine for nothing and returns nothing.
C17_UnknownIsNotFound ==
    (/\ last.op \in QueryMethods \/ (last.op = "handle" /\ ~TornDown)
     /\ UnknownDesignation) =>
        /\ last.raised \in { "AssertionError", "Exception" }
        /\ last.calls = << >>
        /\ last.ret = None

\* C18: a reader that runs beside remove(id) finds for id what was there
\* when remove was called, the id in both maps and its container in the
\* engine, or the state after the removal, the id in neither map and no
\* container: never a state in between.
C18_RemoveAtomic ==
    (observed.id # "None" /\ observed.removing = observed.id) =>
        \/ observed.found = observed.old
        \/ observed.found = Found(FALSE, FALSE, FALSE)

\* the last operation has made one engine call of this name, and this is
\* its place in the record of calls (0 when it made none or several)
TheCall(name) ==
    IF Cardinality(CallsOf(name)) = 1
    THEN CHOOSE k \in CallsOf(name) : TRUE
    ELSE 0

\* C19: a launch that returns a ManagedContainer has created its
\* container, then uploaded the mounts when it has mounts, then attached
\* the container to the isolated network, then started it, each once and
\* each for the container of the handle, and the start is the last engine
\* call before the return; the container is attached to the network only
\* by that later call, not by its creation.
C19_CreateConnectStart ==
    (last.op = "launch" /\ last.ret # None) =>
        LET create == TheCall("create")
            connect == TheCall("connect")
            start == TheCall("start")
            upload == TheCall("put_archive")
        IN  /\ 0 < create /\ create < connect /\ connect < start
            /\ start = Len(last.calls)
            /\ IF last.arg.mounts
               THEN create < upload /\ upload < connect
               ELSE CallsOf("put_archive") = {}
            /\ \A k \in create..start : last.calls[k][3] = "ok"
            /\ \A k \in (create + 1)..start : last.calls[k][2] = last.ret
            /\ last.created = last.ret
            /\ containers[last.ret] = "running"

\* a launch with mounts has returned, after it has removed the container
\* of an earlier launch of the same service and pulled its image
C19_Witness ==
    /\ last.op = "launch"
    /\ last.ret # None
    /\ last.arg.mounts
    /\ CallsOf("remove") # {}
    /\ CallsOf("pull") # {}

\* the containers the engine has
InEngine == { i \in Ids : containers[i] # "absent" }

\* C20: a launch that calls the engine to create its container has
\* listed the containers of the generated name before, whatever their
\* state, and has removed every one of them from the engine before the
\* creation: at the creation no other container has the name, so that no
\* two containers of the engine ever have the same name.
C20_NameFreeBeforeCreate ==
    /\ (last.op = "launch" /\ CallsOf("create") # {}) =>
          /\ last.calls[1] = << "list", last.arg.service_name, "ok" >>
          /\ \A k \in CallsOf("remove") :
                /\ \A c \in CallsOf("create") : k < c
                /\ last.calls[k][3] = "ok"
                /\ names[last.calls[k][2]] = last.arg.service_name
                /\ last.calls[k][2] \notin InEngine
          /\ \A i \in InEngine \ { last.created } :
                names[i] # last.arg.service_name
    /\ \A i, j \in InEngine : names[i] = names[j] => i = j

\* a launch has returned after it has removed the container that an
\* earlier launch of the same service had left when it failed
C20_Witness ==
    /\ last.op = "launch"
    /\ last.ret # None
    /\ \E k \in CallsOf("remove") :
         /\ last.calls[k][2] \in last.owned_before
         /\ last.calls[k][2] \notin handles

\* C21: the aliases launch hands to the isolated network are, as a set, the
\* service name and the additional DNS names, each bare and, when a virtual
\* domain is configured, each also under that domain: nothing else, and the
\* service name is always among them
C21_AliasSet ==
    outcome.op = "connect" =>
        LET bare == { call.service_name }
                    \cup Range(call.additional_dns_names)
            qualified == IF call.virtual_domain = None THEN {}
                         ELSE { a \o "." \o call.virtual_domain : a \in bare }
        IN  /\ Range(outcome.aliases) = bare \cup qualified
            /\ call.service_name \in Range(outcome.aliases)

\* a launch with additional names, under a virtual domain
C21_Witness ==
    /\ outcome.op = "connect"
    /\ call.virtual_domain # None
    /\ call.additional_dns_names # << >>
    /\ call.service_name \notin Range(call.additional_dns_names)
    /\ Len(outcome.aliases) > 2

\* C22: launch uses an untagged reference that is not local-only under the
\* tag latest, for the test against the pulled images, for the pull and for
\* the creation; an untagged local-only reference is used untagged and a
\* tagged reference under its own tag
C22_ImageQualified ==
    last.op = "launch" =>
        LET image == last.arg.image
            tag == IF image.image_tag = None /\ ~image.use_local
                   THEN "latest"
                   ELSE image.image_tag
            used == DockerImage(image.image_name, tag, image.use_local)
            name == IF tag = None THEN image.image_name
                    ELSE image.image_name \o ":" \o tag
        IN  /\ \A k \in CallsOf("pull") : last.calls[k][2] = name
            /\ CallsOf("pull") # {} =>
                  ~used.use_local /\ used \notin last.before.updated
            /\ (CallsOf("pull") = {} /\ CallsOf("create") # {}) =>
                  used.use_local \/ used \in last.before.updated
            /\ updated_images \ last.before.updated \subseteq { used }
            /\ pull_attempted \ last.before.attempted \subseteq { used }
            /\ CallsOf("create") # {} => last.config_image = name

\* an untagged reference is launched a second time, after it was pulled as
\* latest: it is not pulled again and the container is created from latest
C22_Witness ==
    /\ last.op = "launch"
    /\ last.arg.image = DockerImage("mongo", None, FALSE)
    /\ DockerImage("mongo", "latest", FALSE) \in last.before.updated
    /\ CallsOf("pull") = {}
    /\ last.config_image = "mongo:latest"
    /\ last.ret # None

\* C23: when the removal of the network, the last engine call of
\* remove_all(), raises, remove_all() raises that exception to its caller;
\* when only removals of containers raise, remove_all() returns
C23_NetworkFailurePropagates ==
    last.op = "remove_all" =>
        LET net == TheCall("network.remove")
            failed == { k \in CallsOf("remove") : last.calls[k][3] = "raised" }
        IN  /\ last.calls[net][3] = "raised" => last.raised = "EngineError"
            /\ (failed # {} /\ last.calls[net][3] = "ok") =>
                  last.raised = None /\ network = "removed"

\* a remove_all in which the removal of a container raised and the removal
\* of the network raised too
C23_Witness ==
    /\ last.op = "remove_all"
    /\ last.raised = "EngineError"
    /\ last.calls[TheCall("network.remove")][3] = "raised"
    /\ \E k \in CallsOf("remove") : last.calls[k][3] = "raised"

\* the last operation is a dump with only_once for a container that was
\* owned when it was called
DumpOnce ==
    /\ last.op = "dump_logs_to_stdout"
    /\ last.arg.only_once
    /\ last.arg.id \in last.owned_before

\* the last operation has left the maps and the sets of the DockerTester
\* as it found them
Untouched ==
    /\ owned_containers = last.before.owned
    /\ services = last.before.services
    /\ updated_images = last.before.updated
    /\ container_log_dumped = last.before.log_dumped

\* C24 as stated: once a dump with only_once has asked the engine for the
\* logs of a container, every later dump with only_once for that container
\* asks the engine for nothing and changes no state
C24_DumpedByFirstOnly ==
    (DumpOnce /\ last.arg.id \in last.before.dump_attempted) =>
        last.calls = << >> /\ Untouched

\* C24: a dump with only_once for a container whose logs a dump has
\* printed to the end asks the engine for nothing, returns and changes no
\* state; for any other owned container it asks for the logs once, and
\* marks the container as dumped exactly when it returns
C24_DumpedOnceReturned ==
    DumpOnce =>
        IF last.arg.id \in last.before.log_dumped
        THEN last.calls = << >> /\ last.raised = None /\ Untouched
        ELSE /\ Len(last.calls) = 1
             /\ last.calls[1][1] = "logs"
             /\ IF last.raised = None
                THEN container_log_dumped =
                         last.before.log_dumped \cup { last.arg.id }
                ELSE Untouched

\* a second dump with only_once after one that printed the logs
C24_Witness ==
    /\ DumpOnce
    /\ last.arg.id \in last.before.dump_attempted
    /\ last.arg.id \in last.before.log_dumped
    /\ last.calls = << >>

\* C25: stop_container and start_container, whether they return or raise,
\* leave owned_containers, service_names, the pulled-image set and the
\* logs-dumped set as they found them; no operation but remove and
\* remove_all takes an entry out of the two maps
C25_StopStartFrame ==
    /\ last.op \in { "stop", "start" } => Untouched
    /\ last.op \notin { "none", "remove", "remove_all" } =>
          /\ \A id \in DOMAIN last.before.owned :
                /\ id \in DOMAIN owned_containers
                /\ owned_containers[id] = last.before.owned[id]
          /\ \A id \in DOMAIN last.before.services :
                /\ id \in DOMAIN services
                /\ services[id] = last.before.services[id]

\* a stop_container that made its engine call, with an image pulled and
\* the logs of a container dumped before; the engine call raised
C25_Witness ==
    /\ last.op = "stop"
    /\ last.calls # << >>
    /\ last.raised = "EngineError"
    /\ last.before.updated # {}
    /\ last.before.log_dumped # {}
    /\ Cardinality(DOMAIN last.before.owned) = 2

\* the registry, the name and the tag of an image
Fields(image) ==
    << image.docker_registry, image.image_name, image.image_tag >>

\* C26: for every name that docker_image accepts, docker_image of the
\* full name of the image it returns is accepted too and has the same
\* registry, name and tag
C26_RoundTrip ==
    outcome.op = "round_trip" =>
        /\ outcome.again.raised = None
        /\ Fields(outcome.again.image) = Fields(outcome.image)

\* the strings a name starts with, and those it ends with
Prefixes(str) == { SubSeq(str, 1, k) : k \in 0..Len(str) }
Suffixes(str) == { SubSeq(str, k, Len(str)) : k \in 1..(Len(str) + 1) }

\* a registry, a name and a tag, written as [registry/]name[:tag]
Written(g) ==
    (IF g.docker_registry = Nothing THEN << >>
     ELSE The(g.docker_registry) \o << "/" >>)
    \o g.image_name
    \o (IF g.image_tag = Nothing THEN << >>
        ELSE << ":" >> \o The(g.image_tag))

\* the ways to read str as [registry/]name[:tag]: a name and a tag of
\* lowercase letters, digits, "-", "_" and ".", and a registry of one line
Forms(str) ==
    { g \in { Groups(r, n, t) :
                r \in { Nothing } \cup
                       { Some(x) : x \in { y \in Prefixes(str) :
                                              y # << >> /\ IsAny(y) } },
                n \in { SubSeq(str, i, j) : i, j \in 1..Len(str) },
                t \in { Nothing } \cup
                       { Some(x) : x \in { y \in Suffixes(str) :
                                              IsWord(y) } } } :
        IsWord(g.image_name) /\ Written(g) = str }

\* C27: docker_image of a string written as [registry/]name[:tag] returns
\* that registry, name and tag, None for a part that is not there, and its
\* full name is the string; docker_image of any other string raises the
\* ValueError and returns no image
C27_ParseExactly ==
    outcome.op = "docker_image" =>
        IF Forms(call.name) = {}
        THEN outcome.raised = "ValueError" /\ outcome.image = NoImage
        ELSE /\ outcome.raised = None
             /\ \A g \in Forms(call.name) :
                   Fields(outcome.image) =
                       << g.docker_registry, g.image_name, g.image_tag >>
             /\ outcome.full_name = call.name

\* C28: DockerRegistry.image of a name that docker_image accepts: a
\* reference without registry gets the registry of the entry; a reference
\* whose registry differs from that of the entry raises the mismatch error
\* and gives no image; a reference whose registry is that of the entry
\* keeps it; and an image that is returned has the tag of the reference,
\* or, for an untagged reference, the default tag of the entry, if any
C28_QualifyWithRegistry ==
    outcome.op = "image" =>
        LET ref == docker_image(call.name, call.use_local)
            entry == call.entry
        IN  ref.raised = None =>
              IF ref.image.docker_registry \notin
                     { Nothing, entry.registry }
              THEN /\ outcome.raised =
                         "ValueError(Mismatched docker registries)"
                   /\ outcome.image = NoImage
              ELSE /\ outcome.raised = None
                   /\ outcome.image.docker_registry = entry.registry
                   /\ outcome.image.image_name = ref.image.image_name
                   /\ outcome.image.image_tag =
                         IF ref.image.image_tag # Nothing
                         THEN ref.image.image_tag
                         ELSE entry.default_tag
                   /\ outcome.image.use_local = call.use_local

\* a tagged reference with the registry of the entry, to an entry that has
\* another default tag: the reference is returned as it is
C28_Witness ==
    /\ outcome.op = "image"
    /\ outcome.raised = None
    /\ call.entry.registry = Some(<< "a" >>)
    /\ call.entry.default_tag = Some(<< "1" >>)
    /\ call.name = << "a", "/", "a", ":", "a" >>
    /\ outcome.image.image_tag = Some(<< "a" >>)

\* the registry is in both indexes, under its name and under its host
Indexed(registry) ==
    /\ registry.name \in DOMAIN registries_by_name
    /\ registries_by_name[registry.name] = registry
    /\ registry.registry \in DOMAIN registries_by_registry
    /\ registries_by_registry[registry.registry] = registry

\* C29: add_registry of a registry whose name or whose host is in the
\* manager raises and leaves both indexes as they were; and after every
\* sequence of calls the two indexes hold the same registries, each under
\* its own name and under its own host
C29_IndexesAgree ==
    /\ \A name \in DOMAIN registries_by_name :
          /\ registries_by_name[name].name = name
          /\ Indexed(registries_by_name[name])
    /\ \A registry \in DOMAIN registries_by_registry :
          /\ registries_by_registry[registry].registry = registry
          /\ Indexed(registries_by_registry[registry])
    /\ outcome.op = "add_registry" =>
          IF \/ outcome.registry.name \in DOMAIN outcome.before.by_name
             \/ outcome.registry.registry \in
                    DOMAIN outcome.before.by_registry
          THEN /\ outcome.raised = "ValueError"
               /\ registries_by_name = outcome.before.by_name
               /\ registries_by_registry = outcome.before.by_registry
          ELSE /\ outcome.raised = None
               /\ Indexed(outcome.registry)

\* a registry with a new name and the host of a registered one is refused,
\* by a manager of two registries
C29_Witness ==
    /\ outcome.op = "add_registry"
    /\ outcome.raised = "ValueError"
    /\ outcome.registry.name \notin DOMAIN registries_by_name
    /\ outcome.registry.registry \in DOMAIN registries_by_registry
    /\ Cardinality(DOMAIN registries_by_name) = 2

\* the address a.b.c.d has a = 127
Loopback(address) == address.hi >= 127 * 256 /\ address.hi < 128 * 256

\* the address lies between the first and the last address of the network
\* of the row, whose mask has bits ones
Inside(row, address, bits) ==
    IF bits <= 16
    THEN /\ address.hi >= row.destination.hi
         /\ address.hi < row.destination.hi + 2 ^ (16 - bits)
    ELSE /\ address.hi = row.destination.hi
         /\ address.lo >= row.destination.lo
         /\ address.lo < row.destination.lo + 2 ^ (32 - bits)

\* the number of ones of a mask
Ones(mask) ==
    CHOOSE bits \in 0..32 :
        IF bits <= 16
        THEN mask.hi = 65536 - 2 ^ (16 - bits) /\ mask.lo = 0
        ELSE mask.hi = 65535 /\ mask.lo = 65536 - 2 ^ (32 - bits)

\* C30: in_network of an entry and an address is not true when the address
\* or the destination of the entry is a loopback address, whatever the
\* numbers say, nor for the entry of the default route, which has no
\* network; for every other entry and address it is true exactly when
\* the address lies inside the network of the entry
C30_InNetwork ==
    outcome.op = "in_network" =>
        LET address == AddressValue[call.addr]
            row == call.row
        IN  /\ outcome.result \in { "None", "False", "True" }
            /\ (Loopback(address) \/ Loopback(row.destination)) =>
                  outcome.result # "True"
            /\ row.destination = Quad(0, 0, 0, 0) =>
                  outcome.result # "True"
            /\ (/\ ~Loopback(address)
                /\ ~Loopback(row.destination)
                /\ row.destination # Quad(0, 0, 0, 0)) =>
                  /\ outcome.result \in { "False", "True" }
                  /\ outcome.result = "True" <=>
                        Inside(row, address, Ones(row.mask))

\* a loopback address that lies inside the loopback network of the entry
C30_Witness ==
    /\ outcome.op = "in_network"
    /\ call.addr = "127.0.0.1"
    /\ call.row.destination = Quad(127, 0, 0, 0)
    /\ Inside(call.row, AddressValue[call.addr], Ones(call.row.mask))
    /\ outcome.result = "False"

\* every line of the file can be parsed
Parsable(source) ==
    /\ source.file = "readable"
    /\ source.header
    /\ \A k \in 1..Len(source.rows) :
         /\ source.rows[k].columns = "all"
         /\ source.rows[k].hex
         /\ source.rows[k].row # HostBitsRow

\* C31: the capture of the routing table gives the entries of all the
\* lines of the file, or, when the file is absent, unreadable, empty or
\* has a line that cannot be parsed, no table at all, never a part of the
\* lines; and without a table the resolution for an owned container
\* returns the default-bridge address and the internal port
C31_CaptureNeverRaises ==
    outcome.op = "get_connectable_host_and_port" =>
        LET table == outcome.routing_table
        IN  /\ IF Parsable(call.source)
               THEN /\ table.available
                    /\ table.entries =
                         [ k \in 1..Len(call.source.rows) |->
                             RoutingTableEntry(call.source.rows[k].row) ]
               ELSE ~table.available /\ table.entries = << >>
            /\ (~table.available /\ call.owned /\ ~call.marker) =>
                 /\ Returned(call.default_ip, call.internal_port)
                 /\ "Ports" \notin Asked

\* a file whose second line cannot be parsed: no table, and the
\* default-bridge address is returned
C31_Witness ==
    /\ outcome.op = "get_connectable_host_and_port"
    /\ call.owned /\ ~call.marker
    /\ Len(call.source.rows) = 2
    /\ call.source.rows[1] \in { RawRow(row, "all", TRUE) : row \in Rows }
    /\ ~call.source.rows[2].hex
    /\ ~outcome.routing_table.available
    /\ Returned("172.17.0.2", 5432)

\* the keyword arguments of the environment mark of the service of the
\* call, none without the mark
Overrides ==
    LET marker == get_closest_marker(call.marks, MarkerName(call.service))
    IN  IF marker = {} THEN << >>
        ELSE (CHOOSE m \in marker : TRUE).kwargs

\* C32: get_environment_with_overrides returns the keyword arguments with
\* the values of the environment mark of the service written over them: a
\* key of the mark has the value of the mark, a key of the keyword
\* arguments alone keeps its value, without the mark the result is the
\* keyword arguments, and the keyword arguments of the caller are as before
C32_MarkerOverrides ==
    outcome.op = "get_environment_with_overrides" =>
        /\ outcome.raised = None
        /\ DOMAIN outcome.result = DOMAIN call.kwargs \cup DOMAIN Overrides
        /\ \A k \in DOMAIN Overrides : outcome.result[k] = Overrides[k]
        /\ \A k \in DOMAIN call.kwargs \ DOMAIN Overrides :
             outcome.result[k] = call.kwargs[k]
        /\ outcome.kwargs = call.kwargs

\* the step is a call of the mixin
MixinStep == last.op = "none" /\ last'.op = "mixin"

\* the call of the mixin left what the DockerTester leaves and returns
SameAs(w) ==
    /\ last'.calls = w.calls
    /\ last'.raised = w.raised
    /\ last'.ret = w.ret
    /\ owned_containers' = w.owned
    /\ services' = w.services
    /\ container_log_dumped' = w.log_dumped
    /\ containers' = w.containers

\* C33: before initialize_container_manager every property and method of
\* the mixin raises and nothing reaches the DockerTester; after
\* initialize_container_manager(h), managed_container is h and
\* container_id the id of h, and, while the DockerTester is alive,
\* docker_tester is that DockerTester and a forwarded method returns and
\* leaves what the method of the DockerTester returns and leaves for the
\* id of h
C33_MixinForwards ==
    [][ MixinStep =>
          LET method == last'.arg.method
          IN  IF call.managed = None
              THEN /\ last'.raised # None
                   /\ last'.calls = << >>
                   /\ UNCHANGED << owned_containers, services, containers,
                                   container_log_dumped >>
              ELSE IF method \in { "managed_container", "container_id" }
              THEN last'.raised = None /\ last'.ret = call.managed
              ELSE IF fixture_pc = "collected"
              THEN TRUE
              ELSE IF method = "docker_tester"
              THEN last'.raised = None /\ last'.ret = "DockerTester"
              ELSE \E o \in OptionsOf(method) :
                     SameAs(tester_call(World, method, call.managed, o))
      ]_vars

\* get_logs of an initialized mixin has returned the logs of its container
C33_Witness ==
    /\ last.op = "mixin"
    /\ last.arg.method = "get_logs"
    /\ call.managed \in handles
    /\ last.calls = << << "logs", call.managed, "ok" >> >>
    /\ last.ret = "logs"

\* the with statement is over
WaitOver == outcome.pc \in { "returned", "raised" }

\* a with statement that is over was left normally only after a poll that
\* returned another value than the one of the entry, and one whose block
\* and polls did not raise and whose polls all returned the value of the
\* entry, none at all included, has raised the timeout
WaitExit ==
    /\ outcome.pc = "returned" =>
         \E k \in 1..Len(outcome.polls) : outcome.polls[k] # outcome.val
    /\ ( /\ WaitOver
         /\ outcome.exc \notin { "FuncError", "BodyError" }
         /\ \A k \in 1..Len(outcome.polls) : outcome.polls[k] = outcome.val )
       => outcome.exc = "WaitForChangeTimeoutException"

\* C34: wait_for_change leaves its with statement normally only if a call
\* of func after the block returned a value other than the one captured on
\* entry; when every poll until the timeout returns that value, also when
\* there is no poll, it raises WaitForChangeTimeoutException; and the
\* statement always comes to its end
C34_WaitForChange == []WaitExit /\ <>WaitOver

\* a timeout of no tick at all: the timeout is raised without a poll
C34_Witness ==
    /\ outcome.op = "wait_for_change"
    /\ call.timeout = 0
    /\ outcome.polls = << >>
    /\ outcome.exc = "WaitForChangeTimeoutException"

\* the containers the last launch has removed from the engine
RemovedByLaunch ==
    { i \in Ids : \E k \in 1..Len(last.calls) :
                     last.calls[k] = << "remove", i, "ok" >> }

\* C35: after a launch no id of owned_containers is one of a container
\* that the launch has removed from the engine, and at every moment no two
\* ids of the registry have the same service name: a launch of a service
\* name that is registered leaves no entry for the earlier container
C35_NoStaleEntries ==
    /\ last.op = "launch" =>
         DOMAIN owned_containers \cap RemovedByLaunch = {}
    /\ \A a, b \in DOMAIN services :
         services[a] = services[b] => a = b

\* C36: once remove_all() has removed the isolated network, a launch
\* creates no container in the engine and adds no id to the registry
C36_NoLaunchAfterTeardown ==
    (last.op = "launch" /\ network = "removed") =>
        /\ last.created = None
        /\ DOMAIN owned_containers \subseteq last.owned_before
        /\ DOMAIN services \subseteq DOMAIN last.before.services

\* C37: when a service fixture that has launched its container has come
\* to its end, whether the service was ready or not, the address was
\* resolved or not, the dump of the logs failed or not and the test raised
\* or not, the container is neither in the engine nor in the registry
\* (the engine did not refuse the removal)
C37_FixtureRemovesContainer ==
    (call.pc = "finished" /\ call.launched /\ ~call.remove_fault) =>
        /\ containers[call.container] = "absent"
        /\ call.container \notin DOMAIN owned_containers
        /\ call.container \notin DOMAIN services

\* C38: get_bound_ports has raised its timeout only when the last inspect
\* reported an empty list for the port; a call that is over and whose last
\* inspect reported a list that is not empty has returned that list,
\* whatever the clock said when the inspect came back
C38_TimeoutOnlyWhenEmpty ==
    /\ poll.pc = "raised_timeout" =>
         (poll.answer.present /\ Len(poll.answer.list) = 0)
    /\ ( /\ poll.pc \in { "returned_none", "returned_list", "raised_timeout" }
         /\ poll.answer.present
         /\ Len(poll.answer.list) > 0 )
       => (poll.pc = "returned_list" /\ poll.bound_ports = poll.answer.list)

\* C39: from_env returns no entry when DOCKERREGISTRY is not set, raises
\* when DOCKERLOGINUSER is set and DOCKERLOGINPASS is not, and otherwise
\* returns the entry with the name it was given, the registry of
\* DOCKERREGISTRY, the user and the password of the two login variables
\* and no default tag
C39_FromEnv ==
    outcome.op = "from_env" =>
        IF call.env.DOCKERREGISTRY = Nothing
        THEN outcome.raised = None /\ ~outcome.returned
        ELSE IF /\ call.env.DOCKERLOGINUSER # Nothing
                /\ call.env.DOCKERLOGINPASS = Nothing
        THEN outcome.raised = "ValueError" /\ ~outcome.returned
        ELSE /\ outcome.raised = None /\ outcome.returned
             /\ outcome.entry.name = Some(call.name)
             /\ outcome.entry.registry = call.env.DOCKERREGISTRY
             /\ outcome.entry.username = call.env.DOCKERLOGINUSER
             /\ outcome.entry.password =
                  ( IF call.env.DOCKERLOGINUSER # Nothing
                    THEN call.env.DOCKERLOGINPASS ELSE Nothing )
             /\ outcome.entry.default_tag = Nothing

\* C40: at every moment a RabbitMqBroadcaster that holds a channel holds a
\* connection, on which the exchange has been declared; and a reconnect
\* that has returned has left a channel in the object, a reconnect whose
\* timeout passed without one having raised
C40_ChannelImpliesDeclared ==
    /\ call.amqp_channel # None =>
         (call.connection # None /\ call.declared)
    /\ outcome.op = "reconnect" =>
         (outcome.raised = None <=> call.amqp_channel # None)

====
